---- MODULE Spec2Model ----
(***************************************************************************)
(* Option-binding layer of highcharts: coercive property setters and the   *)
(* from_dict / to_dict round trip of AxisMarker, PaneBackground, Pane,     *)
(* GenericTypeOptions, WordcloudData and PictorialPaths.                   *)
(*                                                                         *)
(* A Python value is a record [t, s, n, k]: t its type, s its text (str),  *)
(* n its number in hundredths (0.01 is n = 1, 50 is n = 5000) or the       *)
(* identity of its content (dict, node), k its keys (dict).                *)
(***************************************************************************)
EXTENDS Integers, Sequences, FiniteSets, TLC

VARIABLES
    defaults,   \* which values highcharts.constants gives the DEFAULT_* maps
    obj,        \* the node last built or assigned to: [cls, s (slots)]
    alive,      \* the caller holds obj (its constructor returned)
    raised,     \* the exception the last operation raised, or "none"
    raised_at,  \* the slot whose assignment raised it, or ""
    msg,        \* what the text of that exception names
    out,        \* the value the last operation returned, where the model keeps it
    op,         \* the last operation: [name, cls, attr, value]
    arg,        \* the mapping (kwargs / as_dict) the last operation was given
    before,     \* obj as it was before the last operation
    nassign,    \* assignments made to obj since it was built
    heap,       \* the slots of each child instance that parents can share
    parents,    \* the slots of two AxisMarker nodes that hold such children
    collections, \* two lists returned by WordcloudData.from_setter
    caller_dict \* the mapping object the last from_dict was given, as it left it

vars ==
    <<defaults, obj, alive, raised, raised_at, msg, out, op, arg, before, nassign,
      heap, parents, collections, caller_dict>>

\* What the operations on one node leave alone.
shared == <<heap, parents, collections>>

\* Bounds of the model.
MaxAssign == 1
\* The longest sequence given to from_setter.
MaxItems == 2

-----------------------------------------------------------------------------
(* Python values *)

None == [t |-> "None", s |-> "", n |-> 0, k |-> {}]
Str(x) == [t |-> "str", s |-> x, n |-> 0, k |-> {}]
Num(x) == [t |-> "num", s |-> "", n |-> x, k |-> {}]
Bool(b) == [t |-> "bool", s |-> "", n |-> IF b THEN 1 ELSE 0, k |-> {}]
\* A mapping with keys ks; json says whether from_json can read it as literal
\* notation ("ok") or fails to parse it ("bad"); id names its content.
Dict(ks, json, id) == [t |-> "dict", s |-> json, n |-> id, k |-> ks]
\* Instances of the repository's classes; id names the content.
Node(cls, id) == [t |-> cls, s |-> "", n |-> id, k |-> {}]
\* A list of len items of kind (a class name, "dict" or "str").
List(kind, len) == [t |-> "list", s |-> kind, n |-> len, k |-> {}]

\* A mapping given entry by entry: m maps its keys to values.
Mapping(m) == [t |-> "mapping", s |-> "", n |-> 0, k |-> DOMAIN m, m |-> m]

\* The mapping with no keys: {} and no keyword arguments.
Empty == [x \in {} |-> None]

\* A sequence given item by item: q holds its items in order.
Items(q) == [t |-> "items", s |-> "", n |-> Len(q), k |-> {}, q |-> q]

EmptyStr == Str("")
EmptyDict == Dict({}, "ok", 0)
EnforcedNull == Node("EnforcedNullType", 0)

\* Python truthiness: `not value`.
Falsy(v) ==
    \/ v.t = "None"
    \/ v.t = "str" /\ v.s = ""
    \/ v.t \in {"num", "bool"} /\ v.n = 0
    \/ v.t = "dict" /\ v.k = {}
    \/ v.t = "list" /\ v.n = 0
    \/ v.t = "mapping" /\ v.k = {}
    \/ v.t = "items" /\ v.n = 0

\* The texts of the model that hold a discriminator as a substring.
GradientTexts == {"{linearGradient: {x1: 0}}", "linearGradient(red, blue)"}
PatternTexts == {"{patternOptions: {id: 1}}", "patternOptions:dots"}
\* The texts from_json can parse as literal notation.
JSONTexts == {"{linearGradient: {x1: 0}}", "{patternOptions: {id: 1}}"}

\* Python `key in value` for a dict (a key) or a str (a substring).
Contains(value, key) ==
    CASE value.t = "dict" -> key \in value.k
      [] value.t = "str" ->
            \/ key = "linearGradient" /\ value.s \in GradientTexts
            \/ key = "patternOptions" /\ value.s \in PatternTexts
      [] OTHER -> FALSE

\* str.lower() on the texts of the model.
Lower(x) ==
    CASE x = "Circle" -> "circle"
      [] x = "POINTER" -> "pointer"
      [] x = "Dash" -> "dash"
      [] OTHER -> x

\* float(text) for the numeric texts of the model, in hundredths.
NumericTexts == {"50", "0.5"}
ParseFloat(x) == IF x = "50" THEN 5000 ELSE 50

-----------------------------------------------------------------------------
(* Results and exceptions *)

\* What the text of an exception names: the slot assigned ("" when it names
\* none) and the value it shows (None when the model does not follow it).
NoMsg == [slot |-> "", value |-> None]

Ok(v) == [exc |-> "none", v |-> v, msg |-> NoMsg]
Raise(e) == [exc |-> e, v |-> None, msg |-> NoMsg]
\* raise e(f'... {slot} ... {value}')
RaiseAbout(e, slot, value) ==
    [exc |-> e, v |-> None, msg |-> [slot |-> slot, value |-> value]]

\* `except ValueError` catches these; CannotCoerceError derives from TypeError.
IsValueError(e) ==
    e \in {"ValueError", "EmptyValueError", "MinimumValueError",
           "MaximumValueError", "NotAnIntegerError", "NotADictError",
           "HighchartsValueError"}

-----------------------------------------------------------------------------
(* validator_collection, as the setters call it *)

\* validators.string(value, allow_empty): an empty value is None or an
\* EmptyValueError; a value that is no str is not coerced.
validators_string(value, allow_empty) ==
    IF Falsy(value)
    THEN IF allow_empty THEN Ok(None) ELSE Raise("EmptyValueError")
    ELSE IF value.t # "str" THEN Raise("CannotCoerceError")
    ELSE Ok(value)

\* validators.numeric(value, allow_empty): None is empty; a str is read with
\* float(); any other value must be a number.
validators_numeric(value, allow_empty) ==
    IF value.t = "None"
    THEN IF allow_empty THEN Ok(None) ELSE Raise("EmptyValueError")
    ELSE IF value.t = "str"
    THEN IF value.s \in NumericTexts THEN Ok(Num(ParseFloat(value.s)))
         ELSE Raise("CannotCoerceError")
    ELSE IF value.t \in {"num", "bool"} THEN Ok(value)
    ELSE Raise("CannotCoerceError")

\* validators.float(value, allow_empty, minimum, maximum), bounds in hundredths.
validators_float(value, allow_empty, minimum, maximum) ==
    LET r == validators_numeric(value, allow_empty) IN
    IF r.exc # "none" \/ r.v.t = "None" THEN r
    ELSE IF r.v.n < minimum THEN Raise("MinimumValueError")
    ELSE IF r.v.n > maximum THEN Raise("MaximumValueError")
    ELSE r

\* validators.integer(value, allow_empty, minimum): a number with a
\* fractional part is no integer.
validators_integer(value, allow_empty, minimum) ==
    LET r == validators_numeric(value, allow_empty) IN
    IF r.exc # "none" \/ r.v.t = "None" THEN r
    ELSE IF r.v.n % 100 # 0 THEN Raise("NotAnIntegerError")
    ELSE IF r.v.n < minimum THEN Raise("MinimumValueError")
    ELSE r

\* validators.dict(value, allow_empty).
validators_dict(value, allow_empty) ==
    IF Falsy(value)
    THEN IF allow_empty THEN Ok(None) ELSE Raise("EmptyValueError")
    ELSE IF value.t # "dict" THEN Raise("NotADictError")
    ELSE Ok(value)

\* checkers.is_iterable(value): str is a forbidden literal; dict and list are
\* iterable.
checkers_is_iterable(value) == value.t \in {"dict", "list", "mapping", "items"}

\* checkers.is_dict(value): a dict, empty or not, or what validators.dict
\* accepts.
checkers_is_dict(value) ==
    \/ value.t \in {"dict", "mapping"}
    \/ validators_dict(value, FALSE).exc = "none"

\* checkers.is_type(obj, type_): the class of the object is named type_.
checkers_is_type(item, type_) == item.t = type_

-----------------------------------------------------------------------------
(* Gradient, Pattern and the nested-node decorators               *)

Gradient(id) == Node("Gradient", id)
Pattern(id) == Node("Pattern", id)

\* HighchartsMeta.from_json: parses literal notation; a parse failure is a
\* ValueError.
from_json(cls, value) ==
    CASE value.t = "dict" /\ value.s = "ok" -> Ok(Node(cls, value.n))
      [] value.t = "str" /\ value.s \in JSONTexts -> Ok(Node(cls, 1))
      [] OTHER -> Raise("ValueError")

\* cls.from_dict(value) and cls(**value) of a nested class.
from_dict_nested(cls, value) == Ok(Node(cls, value.n))

\* class_sensitive(cls) / validate_types(value, cls): an instance is kept, a
\* mapping goes through from_dict, a falsy value is None, else invalid.
validate_types(value, cls) ==
    IF Falsy(value) THEN Ok(None)
    ELSE IF value.t = cls THEN Ok(value)
    ELSE IF value.t = "dict" THEN from_dict_nested(cls, value)
    ELSE Raise("HighchartsValueError")

\* class_sensitive(cls, force_iterable = True): a sequence of instances or
\* mappings becomes a list of instances; a single one is wrapped.
validate_types_iterable(value, cls) ==
    IF Falsy(value) THEN Ok(None)
    ELSE IF value.t = "list" /\ value.s \in {cls, "dict"} THEN Ok(List(cls, value.n))
    ELSE IF value.t \in {cls, "dict"} THEN Ok(List(cls, 1))
    ELSE Raise("HighchartsValueError")

-----------------------------------------------------------------------------
(* AxisMarker: the setters *)

AxisMarker_animation(value) ==
    IF value = Bool(FALSE) THEN Ok(Bool(FALSE))
    ELSE validate_types(value, "AnimationOptions")

\* A colour setter that stores another instance of the class than the one
\* it is given.
AxisMarker_color_Copied(value) ==
    IF Falsy(value) THEN Ok(None)
    ELSE IF value.t \in {"Gradient", "Pattern"} THEN Ok(Node(value.t, 3 - value.n))
    ELSE RaiseAbout("HighchartsValueError", "", value)

\* The colour setter: the recognizers in source order.
AxisMarker_color(value) ==
    IF Falsy(value) THEN Ok(None)
    ELSE IF value.t \in {"Gradient", "Pattern"} THEN Ok(value)
    ELSE IF value.t \in {"dict", "str"} /\ Contains(value, "linearGradient")
    THEN LET r == from_json("Gradient", value) IN
         IF ~IsValueError(r.exc) THEN r
         ELSE IF value.t = "dict" THEN from_dict_nested("Gradient", value)
         ELSE validators_string(value, FALSE)
    ELSE IF value.t = "dict" /\ Contains(value, "linear_gradient")
    THEN from_dict_nested("Gradient", value)
    ELSE IF value.t \in {"dict", "str"} /\ Contains(value, "patternOptions")
    THEN LET r == from_json("Pattern", value) IN
         IF ~IsValueError(r.exc) THEN r
         ELSE IF value.t = "dict" THEN from_dict_nested("Pattern", value)
         ELSE validators_string(value, FALSE)
    ELSE IF value.t = "dict" /\ Contains(value, "pattern_options")
    THEN from_dict_nested("Pattern", value)
    ELSE RaiseAbout("HighchartsValueError", "", value)

\* A width setter that takes 0.01 for an empty value.
AxisMarker_width_SmallIsEmpty(value) ==
    IF value = Num(1) THEN Ok(None) ELSE validators_numeric(value, TRUE)

AxisMarker_width(value) == validators_numeric(value, TRUE)

AxisMarker_set(attr, value) ==
    CASE attr = "animation" -> AxisMarker_animation(value)
      [] attr = "color" -> AxisMarker_color(value)
      [] attr = "width" -> AxisMarker_width(value)

-----------------------------------------------------------------------------
(* PaneBackground: the setters *)

\* A colour setter that stores what no recognizer accepts.
PaneBackground_background_color_StoresAnything(value) ==
    LET r == AxisMarker_color(value) IN
    IF r.exc = "HighchartsValueError" THEN Ok(value) ELSE r

\* A colour setter that tries patternOptions before the Gradient keys.
PaneBackground_background_color_PatternOptionsFirst(value) ==
    IF value.t = "dict" /\ Contains(value, "patternOptions")
    THEN from_dict_nested("Pattern", value)
    ELSE AxisMarker_color(value)

\* The colour setter of background_color.
PaneBackground_background_color(value) ==
    IF Falsy(value) THEN Ok(None)
    ELSE IF value.t \in {"Gradient", "Pattern"} THEN Ok(value)
    ELSE IF value.t \in {"dict", "str"} /\ Contains(value, "linearGradient")
    THEN LET r == from_json("Gradient", value) IN
         IF ~IsValueError(r.exc) THEN r
         ELSE IF value.t = "dict" THEN from_dict_nested("Gradient", value)
         ELSE validators_string(value, FALSE)
    ELSE IF value.t = "dict" /\ Contains(value, "linear_gradient")
    THEN from_dict_nested("Gradient", value)
    ELSE IF value.t \in {"dict", "str"} /\ Contains(value, "patternOptions")
    THEN LET r == from_json("Pattern", value) IN
         IF ~IsValueError(r.exc) THEN r
         ELSE IF value.t = "dict" THEN from_dict_nested("Pattern", value)
         ELSE validators_string(value, FALSE)
    ELSE IF value.t = "dict" /\ Contains(value, "pattern_options")
    THEN from_dict_nested("Pattern", value)
    ELSE RaiseAbout("HighchartsValueError", "", value)

\* A colour setter that tries the Pattern keys before the Gradient keys.
PaneBackground_border_color_PatternKeyFirst(value) ==
    IF /\ value.t = "dict"
       /\ Contains(value, "patternOptions") \/ Contains(value, "pattern_options")
    THEN from_dict_nested("Pattern", value)
    ELSE AxisMarker_color(value)

\* The colour setter of border_color.
PaneBackground_border_color(value) ==
    IF Falsy(value) THEN Ok(None)
    ELSE IF value.t \in {"Gradient", "Pattern"} THEN Ok(value)
    ELSE IF value.t \in {"dict", "str"} /\ Contains(value, "linearGradient")
    THEN LET r == from_json("Gradient", value) IN
         IF ~IsValueError(r.exc) THEN r
         ELSE IF value.t = "dict" THEN from_dict_nested("Gradient", value)
         ELSE validators_string(value, FALSE)
    ELSE IF value.t = "dict" /\ Contains(value, "linear_gradient")
    THEN from_dict_nested("Gradient", value)
    ELSE IF value.t \in {"dict", "str"} /\ Contains(value, "patternOptions")
    THEN LET r == from_json("Pattern", value) IN
         IF ~IsValueError(r.exc) THEN r
         ELSE IF value.t = "dict" THEN from_dict_nested("Pattern", value)
         ELSE validators_string(value, FALSE)
    ELSE IF value.t = "dict" /\ Contains(value, "pattern_options")
    THEN from_dict_nested("Pattern", value)
    ELSE RaiseAbout("HighchartsValueError", "", value)

PaneBackground_border_width(value) == validators_numeric(value, TRUE)

PaneBackground_class_name(value) == validators_string(value, TRUE)

\* Numeric-or-percentage: the string validation first, the numeric one when
\* that fails with a ValueError.
PaneBackground_inner_radius(value) ==
    IF value.t = "None" \/ value = EmptyStr THEN Ok(None)
    ELSE LET r == validators_string(value, TRUE) IN
         IF IsValueError(r.exc) THEN validators_numeric(value, TRUE) ELSE r

PaneBackground_outer_radius(value) ==
    IF value.t = "None" \/ value = EmptyStr THEN Ok(None)
    ELSE LET r == validators_string(value, TRUE) IN
         IF IsValueError(r.exc) THEN validators_numeric(value, TRUE) ELSE r

\* A shape setter without the membership test.
PaneBackground_shape_Unchecked(value) ==
    IF Falsy(value) THEN Ok(None)
    ELSE LET r == validators_string(value, FALSE) IN
         IF r.exc # "none" THEN r ELSE Ok(Str(Lower(r.v.s)))

PaneBackground_shape(value) ==
    IF Falsy(value) THEN Ok(None)
    ELSE LET r == validators_string(value, FALSE) IN
         IF r.exc # "none" THEN r
         ELSE IF Lower(r.v.s) \notin {"circle", "solid", "arc"}
         THEN RaiseAbout("HighchartsValueError", "shape", Str(Lower(r.v.s)))
         ELSE Ok(Str(Lower(r.v.s)))

PaneBackground_set(attr, value) ==
    CASE attr = "background_color" -> PaneBackground_background_color(value)
      [] attr = "border_color" -> PaneBackground_border_color(value)
      [] attr = "border_width" -> PaneBackground_border_width(value)
      [] attr = "class_name" -> PaneBackground_class_name(value)
      [] attr = "inner_radius" -> PaneBackground_inner_radius(value)
      [] attr = "outer_radius" -> PaneBackground_outer_radius(value)
      [] attr = "shape" -> PaneBackground_shape(value)

-----------------------------------------------------------------------------
(* Pane: the setters *)

Pane_background(value) == validate_types_iterable(value, "PaneBackground")

\* center: a list of two-item lists; each item a str, or a number when the
\* string validation fails with a ValueError. The list kinds of the model:
\* "pair:str" [["50%", "50%"]], "pair:zero" [[0, 0]], "pair:num" [[50, 50]],
\* "str" ["50%", "50%"].
Pane_center(value) ==
    IF Falsy(value) THEN Ok(None)
    ELSE IF value.t # "list" \/ value.s \notin {"pair:str", "pair:zero", "pair:num"}
    THEN Raise("NotAnIterableError")
    ELSE IF value.s = "pair:num" THEN Raise("CannotCoerceError")
    ELSE Ok(value)

Pane_end_angle(value) == validators_numeric(value, TRUE)

Pane_inner_size(value) ==
    IF Falsy(value) THEN Ok(None)
    ELSE LET r == validators_string(value, FALSE) IN
         IF IsValueError(r.exc) THEN validators_numeric(value, FALSE) ELSE r

Pane_size(value) ==
    IF Falsy(value) THEN Ok(None)
    ELSE LET r == validators_string(value, FALSE) IN
         IF IsValueError(r.exc) THEN validators_numeric(value, FALSE) ELSE r

Pane_start_angle(value) == validators_numeric(value, TRUE)

Pane_set(attr, value) ==
    CASE attr = "background" -> Pane_background(value)
      [] attr = "center" -> Pane_center(value)
      [] attr = "end_angle" -> Pane_end_angle(value)
      [] attr = "inner_size" -> Pane_inner_size(value)
      [] attr = "size" -> Pane_size(value)
      [] attr = "start_angle" -> Pane_start_angle(value)

-----------------------------------------------------------------------------
(* GenericTypeOptions: the setters *)

\* The values the docstring of cursor lists (constants.SUPPORTED_CURSOR_VALUES).
SUPPORTED_CURSOR_VALUES ==
    {"alias", "all-scroll", "auto", "cell", "col-resize", "context-menu", "copy",
     "crosshair", "default", "e-resize", "ew-resize", "grab", "grabbing", "help",
     "move", "n-resize", "ne-resize", "nesw-resize", "no-drop", "none",
     "not-allowed", "ns-resize", "nw-resize", "nwse-resize", "pointer",
     "progress", "row-resize", "s-resize", "se-resize", "sw-resize", "text",
     "vertical-text", "w-resize", "wait", "zoom-in", "zoom-out"}

\* The values the docstring of dash_style lists
\* (constants.SUPPORTED_DASH_STYLE_VALUES).
SUPPORTED_DASH_STYLE_VALUES ==
    {"Dash", "DashDot", "Dot", "LongDash", "LongDashDot", "LongDashDotDot",
     "ShortDash", "ShortDashDot", "ShortDashDotDot", "ShortDot", "Solid"}

\* bool(value)
PyBool(value) == Ok(Bool(~Falsy(value)))

\* A colour setter that keeps the empty mapping.
GenericTypeOptions_color_KeepsEmptyMapping(value) ==
    IF value = EmptyDict THEN Ok(value) ELSE AxisMarker_color(value)

\* A colour setter without the fallback: the error of from_json is raised.
GenericTypeOptions_color_ParseErrorRaised(value) ==
    IF Falsy(value) THEN Ok(None)
    ELSE IF value.t \in {"Gradient", "Pattern"} THEN Ok(value)
    ELSE IF value.t \in {"dict", "str"} /\ Contains(value, "linearGradient")
    THEN from_json("Gradient", value)
    ELSE IF value.t = "dict" /\ Contains(value, "linear_gradient")
    THEN from_dict_nested("Gradient", value)
    ELSE IF value.t \in {"dict", "str"} /\ Contains(value, "patternOptions")
    THEN from_json("Pattern", value)
    ELSE IF value.t = "dict" /\ Contains(value, "pattern_options")
    THEN from_dict_nested("Pattern", value)
    ELSE RaiseAbout("HighchartsValueError", "", value)

GenericTypeOptions_color(value) ==
    IF Falsy(value) THEN Ok(None)
    ELSE IF value.t \in {"Gradient", "Pattern"} THEN Ok(value)
    ELSE IF value.t \in {"dict", "str"} /\ Contains(value, "linearGradient")
    THEN LET r == from_json("Gradient", value) IN
         IF ~IsValueError(r.exc) THEN r
         ELSE IF value.t = "dict" THEN from_dict_nested("Gradient", value)
         ELSE validators_string(value, FALSE)
    ELSE IF value.t = "dict" /\ Contains(value, "linear_gradient")
    THEN from_dict_nested("Gradient", value)
    ELSE IF value.t \in {"dict", "str"} /\ Contains(value, "patternOptions")
    THEN LET r == from_json("Pattern", value) IN
         IF ~IsValueError(r.exc) THEN r
         ELSE IF value.t = "dict" THEN from_dict_nested("Pattern", value)
         ELSE validators_string(value, FALSE)
    ELSE IF value.t = "dict" /\ Contains(value, "pattern_options")
    THEN from_dict_nested("Pattern", value)
    ELSE RaiseAbout("HighchartsValueError", "", value)

GenericTypeOptions_cursor(value) ==
    IF Falsy(value) THEN Ok(None)
    ELSE LET r == validators_string(value, FALSE) IN
         IF r.exc # "none" THEN r
         ELSE IF Lower(r.v.s) \notin SUPPORTED_CURSOR_VALUES
         THEN RaiseAbout("HighchartsValueError", "cursor", Str(Lower(r.v.s)))
         ELSE Ok(Str(Lower(r.v.s)))

GenericTypeOptions_custom(value) ==
    LET r == validators_dict(value, TRUE) IN
    IF r.exc # "none" THEN r
    ELSE IF Falsy(r.v) THEN Ok(EmptyDict) ELSE r

GenericTypeOptions_dash_style(value) ==
    IF Falsy(value) THEN Ok(None)
    ELSE LET r == validators_string(value, FALSE) IN
         IF r.exc # "none" THEN r
         ELSE IF r.v.s \notin SUPPORTED_DASH_STYLE_VALUES
         THEN RaiseAbout("HighchartsValueError", "dash_style", r.v)
         ELSE r

GenericTypeOptions_data_labels(value) ==
    IF Falsy(value) THEN Ok(None)
    ELSE IF checkers_is_iterable(value)
    THEN validate_types_iterable(value, "DataLabel")
    ELSE validate_types(value, "DataLabel")

GenericTypeOptions_keys(value) ==
    IF Falsy(value) THEN Ok(None)
    ELSE IF value.t = "list" /\ value.s = "str" THEN Ok(value)
    ELSE Raise("NotAnIterableError")

GenericTypeOptions_opacity(value) == validators_float(value, TRUE, 0, 100)

GenericTypeOptions_threshold(value) ==
    IF value = EnforcedNull THEN Ok(EnforcedNull)
    ELSE LET r == validators_numeric(value, TRUE) IN
         IF r.exc # "none" THEN r
         ELSE IF Falsy(r.v) THEN Ok(Num(0)) ELSE r

GenericTypeOptions_turbo_threshold(value) ==
    IF Falsy(value) THEN Ok(Num(0))
    ELSE LET r == validators_integer(value, TRUE, 0) IN
         IF r.exc # "none" THEN r
         ELSE IF Falsy(r.v) THEN Ok(Num(0)) ELSE r

\* The slots assigned with bool(value), with validators.string(value,
\* allow_empty = True) and through class_sensitive(<class>).
GenericTypeOptions_bool_slots ==
    {"allow_point_select", "clip", "enable_mouse_tracking",
     "include_in_data_export", "selected", "show_in_legend",
     "skip_keyboard_navigation", "sticky_tracking", "visible"}
GenericTypeOptions_string_slots ==
    {"class_name", "description", "linked_to", "point_description_formatter"}
GenericTypeOptions_node_slots ==
    [accessibility |-> "TypeOptionsAccessibility", animation |-> "AnimationOptions",
     events |-> "SeriesEvents", label |-> "SeriesLabel", marker |-> "Marker",
     on_point |-> "OnPointOptions", point |-> "Point", states |-> "States",
     tooltip |-> "Tooltip"]

\* obj.attr = value: show_checkbox is a property without a setter.
GenericTypeOptions_set(attr, value) ==
    CASE attr \in GenericTypeOptions_bool_slots -> PyBool(value)
      [] attr \in GenericTypeOptions_string_slots -> validators_string(value, TRUE)
      [] attr \in DOMAIN GenericTypeOptions_node_slots ->
            validate_types(value, GenericTypeOptions_node_slots[attr])
      [] attr = "color" -> GenericTypeOptions_color(value)
      [] attr = "cursor" -> GenericTypeOptions_cursor(value)
      [] attr = "custom" -> GenericTypeOptions_custom(value)
      [] attr = "dash_style" -> GenericTypeOptions_dash_style(value)
      [] attr = "data_labels" -> GenericTypeOptions_data_labels(value)
      [] attr = "keys" -> GenericTypeOptions_keys(value)
      [] attr = "opacity" -> GenericTypeOptions_opacity(value)
      [] attr = "threshold" -> GenericTypeOptions_threshold(value)
      [] attr = "turbo_threshold" -> GenericTypeOptions_turbo_threshold(value)
      [] attr = "show_checkbox" -> Raise("AttributeError")

-----------------------------------------------------------------------------
(* WordcloudData (with the slots of DataBase) and PictorialPaths: the setters *)

WordcloudData_data_labels(value) == validate_types(value, "DataLabel")
WordcloudData_drag_drop(value) == validate_types(value, "DragDropOptions")
WordcloudData_weight(value) == validators_numeric(value, TRUE)

\* The slots DataBase.__init__ assigns from the remaining keyword arguments.
DataBase_set(attr, value) ==
    CASE attr \in {"class_name", "description", "id", "name"} ->
            validators_string(value, TRUE)
      [] attr \in {"color_index", "label_rank"} -> validators_numeric(value, TRUE)
      [] attr = "accessibility" -> validate_types(value, "DataPointAccessibility")
      [] attr = "events" -> validate_types(value, "PointEvents")
      [] attr = "custom" -> validators_dict(value, TRUE)
      [] attr = "color" -> AxisMarker_color(value)
      [] attr = "selected" ->
            IF value.t = "None" THEN Ok(None) ELSE PyBool(value)

WordcloudData_set(attr, value) ==
    CASE attr = "data_labels" -> WordcloudData_data_labels(value)
      [] attr = "drag_drop" -> WordcloudData_drag_drop(value)
      [] attr = "weight" -> WordcloudData_weight(value)
      [] OTHER -> DataBase_set(attr, value)

PictorialPaths_definition(value) == validate_types(value, "AttributeObject")
PictorialPaths_max(value) == validators_numeric(value, TRUE)

PictorialPaths_set(attr, value) ==
    CASE attr = "definition" -> PictorialPaths_definition(value)
      [] attr = "max" -> PictorialPaths_max(value)

-----------------------------------------------------------------------------
(* Chart: the options slot *)

\* An options setter that takes a SharedOptions instance for the options of
\* the chart.
Chart_options_SharedOptionsTaken(value) ==
    IF Falsy(value) THEN Ok(None)
    ELSE IF value.t \in {"HighchartsOptions", "SharedOptions"} THEN Ok(value)
    ELSE IF value.t = "dict" THEN from_dict_nested("HighchartsOptions", value)
    ELSE Raise("HighchartsValueError")

\* chart.options = value: only the regular options type, or a mapping that
\* builds one, is accepted.
Chart_options(value) == validate_types(value, "HighchartsOptions")

Chart_set(attr, value) == CASE attr = "options" -> Chart_options(value)

-----------------------------------------------------------------------------
(* highcharts.constants: the default maps read by pane.py *)

\* DEFAULT_PANE_BACKGROUND.get(key): None when the map has no entry
\* (defaults = "unset"), else the default the docstring of the slot announces.
DEFAULT_PANE_BACKGROUND(key) ==
    IF defaults = "unset" THEN None
    ELSE CASE key = "background_color" ->
                Dict({"linearGradient", "stops"}, "bad", 7)
           [] key = "border_color" -> Str("#cccccc")
           [] key = "border_width" -> Num(100)
           [] key = "class_name" -> Str("highcharts-pane")
           [] key = "inner_radius" -> Num(0)
           [] key = "outer_radius" -> Str("105%")
           [] key = "shape" -> Str("circle")
           [] OTHER -> None

\* DEFAULT_PANE.get(key)
DEFAULT_PANE(key) ==
    IF defaults = "unset" THEN None
    ELSE CASE key = "center" -> List("pair:str", 1)
           [] key = "inner_size" -> Str("0%")
           [] key = "size" -> Str("85%")
           [] key = "start_angle" -> Num(0)
           [] OTHER -> None

-----------------------------------------------------------------------------
(* The constructors' assignments, in order: <<slot, default>> *)

AxisMarker_init_args ==
    << <<"animation", None>>, <<"color", None>>, <<"width", None>> >>

PaneBackground_init_args ==
    << <<"background_color", DEFAULT_PANE_BACKGROUND("background_color")>>,
       <<"border_color", DEFAULT_PANE_BACKGROUND("border_color")>>,
       <<"border_width", DEFAULT_PANE_BACKGROUND("border_width")>>,
       <<"class_name", DEFAULT_PANE_BACKGROUND("class_name")>>,
       <<"inner_radius", DEFAULT_PANE_BACKGROUND("inner_radius")>>,
       <<"outer_radius", DEFAULT_PANE_BACKGROUND("outer_radius")>>,
       <<"shape", DEFAULT_PANE_BACKGROUND("shape")>> >>

Pane_init_args ==
    << <<"background", None>>,
       <<"center", DEFAULT_PANE("center")>>,
       <<"end_angle", DEFAULT_PANE("end_angle")>>,
       <<"inner_size", DEFAULT_PANE("inner_size")>>,
       <<"size", DEFAULT_PANE("size")>>,
       <<"start_angle", DEFAULT_PANE("start_angle")>> >>

GenericTypeOptions_init_args ==
    <<
       <<"accessibility", None>>, <<"allow_point_select", Bool(FALSE)>>,
       <<"animation", None>>, <<"class_name", None>>, <<"clip", Bool(TRUE)>>,
       <<"color", None>>, <<"cursor", None>>, <<"custom", None>>,
       <<"dash_style", None>>, <<"data_labels", None>>,
       <<"description", None>>, <<"enable_mouse_tracking", Bool(TRUE)>>,
       <<"events", None>>, <<"include_in_data_export", None>>,
       <<"keys", None>>, <<"label", None>>, <<"linked_to", None>>,
       <<"marker", None>>, <<"on_point", None>>, <<"opacity", None>>,
       <<"point", None>>, <<"point_description_formatter", None>>,
       <<"selected", Bool(FALSE)>>, <<"show_checkbox", Bool(FALSE)>>,
       <<"show_in_legend", None>>, <<"skip_keyboard_navigation", None>>,
       <<"states", None>>, <<"sticky_tracking", None>>, <<"threshold", None>>,
       <<"tooltip", None>>, <<"turbo_threshold", None>>,
       <<"visible", Bool(TRUE)>>
    >>

\* WordcloudData.__init__ assigns its own slots, then DataBase.__init__ the
\* remaining ones.
WordcloudData_init_args ==
    << <<"data_labels", None>>, <<"drag_drop", None>>, <<"weight", None>>,
       <<"accessibility", None>>, <<"class_name", None>>, <<"color", None>>,
       <<"color_index", None>>, <<"custom", None>>, <<"description", None>>,
       <<"events", None>>, <<"id", None>>, <<"label_rank", None>>,
       <<"name", None>>, <<"selected", None>> >>

PictorialPaths_init_args == << <<"definition", None>>, <<"max", None>> >>

-----------------------------------------------------------------------------
(* The keys from_dict reads: <<slot, external key, default>> *)

AxisMarker_kwargs_keys ==
    << <<"animation", "animation", None>>, <<"color", "color", None>>,
       <<"width", "width", None>> >>

PaneBackground_kwargs_keys ==
    << <<"background_color", "backgroundColor",
         DEFAULT_PANE_BACKGROUND("background_color")>>,
       <<"border_color", "borderColor", DEFAULT_PANE_BACKGROUND("border_color")>>,
       <<"border_width", "borderWidth", DEFAULT_PANE_BACKGROUND("border_width")>>,
       <<"class_name", "className", DEFAULT_PANE_BACKGROUND("class_name")>>,
       <<"inner_radius", "innerRadius", DEFAULT_PANE_BACKGROUND("inner_radius")>>,
       <<"outer_radius", "outerRadius", DEFAULT_PANE_BACKGROUND("outer_radius")>>,
       <<"shape", "shape", DEFAULT_PANE_BACKGROUND("shape")>> >>

Pane_kwargs_keys ==
    << <<"background", "background", None>>,
       <<"center", "center", DEFAULT_PANE("center")>>,
       <<"end_angle", "endAngle", DEFAULT_PANE("end_angle")>>,
       <<"inner_size", "innerSize", DEFAULT_PANE("inner_size")>>,
       <<"size", "size", DEFAULT_PANE("size")>>,
       <<"start_angle", "startAngle", DEFAULT_PANE("start_angle")>> >>

GenericTypeOptions_kwargs_keys ==
    <<
       <<"accessibility", "accessibility", None>>,
       <<"allow_point_select", "allowPointSelect", Bool(FALSE)>>,
       <<"animation", "animation", None>>, <<"class_name", "className", None>>,
       <<"clip", "clip", Bool(TRUE)>>, <<"color", "color", None>>,
       <<"cursor", "cursor", None>>, <<"custom", "custom", None>>,
       <<"dash_style", "dashStyle", None>>,
       <<"data_labels", "dataLabels", None>>,
       <<"description", "description", None>>,
       <<"enable_mouse_tracking", "enableMouseTracking", Bool(TRUE)>>,
       <<"events", "events", None>>,
       <<"include_in_data_export", "includeInDataExport", None>>,
       <<"keys", "keys", None>>, <<"label", "label", None>>,
       <<"linked_to", "linkedTo", None>>, <<"marker", "marker", None>>,
       <<"on_point", "onPoint", None>>, <<"opacity", "opacity", None>>,
       <<"point", "point", None>>,
       <<"point_description_formatter", "pointDescriptionFormatter", None>>,
       <<"selected", "selected", Bool(FALSE)>>,
       <<"show_checkbox", "showCheckbox", Bool(FALSE)>>,
       <<"show_in_legend", "showInLegend", None>>,
       <<"skip_keyboard_navigation", "skipKeyboardNavigation", None>>,
       <<"states", "states", None>>,
       <<"sticky_tracking", "stickyTracking", None>>,
       <<"threshold", "threshold", None>>, <<"tooltip", "tooltip", None>>,
       <<"turbo_threshold", "turboThreshold", None>>,
       <<"visible", "visible", Bool(TRUE)>>
    >>

WordcloudData_kwargs_keys ==
    <<
       <<"accessibility", "accessibility", None>>,
       <<"class_name", "className", None>>, <<"color", "color", None>>,
       <<"color_index", "colorIndex", None>>, <<"custom", "custom", None>>,
       <<"description", "description", None>>, <<"events", "events", None>>,
       <<"id", "id", None>>, <<"label_rank", "labelrank", None>>,
       <<"name", "name", None>>, <<"selected", "selected", None>>,
       <<"data_labels", "dataLabels", None>>,
       <<"drag_drop", "dragDrop", None>>, <<"weight", "weight", None>>
    >>

PictorialPaths_kwargs_keys ==
    << <<"definition", "definition", None>>, <<"max", "max", None>> >>

-----------------------------------------------------------------------------
(* The keys of the untrimmed mapping: <<external key, slot>> *)

AxisMarker_untrimmed_keys ==
    << <<"animation", "animation">>, <<"color", "color">>, <<"width", "width">> >>

PaneBackground_untrimmed_keys ==
    << <<"backgroundColor", "background_color">>,
       <<"borderColor", "border_color">>, <<"borderWidth", "border_width">>,
       <<"className", "class_name">>, <<"innerRadius", "inner_radius">>,
       <<"outerRadius", "outer_radius">>, <<"shape", "shape">> >>

Pane_untrimmed_keys ==
    << <<"background", "background">>, <<"center", "center">>,
       <<"endAngle", "end_angle">>, <<"innerSize", "inner_size">>,
       <<"size", "size">>, <<"startAngle", "start_angle">> >>

GenericTypeOptions_untrimmed_keys ==
    <<
       <<"accessibility", "accessibility">>,
       <<"allowPointSelect", "allow_point_select">>,
       <<"animation", "animation">>, <<"className", "class_name">>,
       <<"clip", "clip">>, <<"color", "color">>, <<"cursor", "cursor">>,
       <<"custom", "custom">>, <<"dashStyle", "dash_style">>,
       <<"dataLabels", "data_labels">>, <<"description", "description">>,
       <<"enableMouseTracking", "enable_mouse_tracking">>,
       <<"events", "events">>,
       <<"includeInDataExport", "include_in_data_export">>, <<"keys", "keys">>,
       <<"label", "label">>, <<"linkedTo", "linked_to">>,
       <<"marker", "marker">>, <<"onPoint", "on_point">>,
       <<"opacity", "opacity">>, <<"point", "point">>,
       <<"pointDescriptionFormatter", "point_description_formatter">>,
       <<"selected", "selected">>, <<"showCheckbox", "show_checkbox">>,
       <<"showInLegend", "show_in_legend">>,
       <<"skipKeyboardNavigation", "skip_keyboard_navigation">>,
       <<"states", "states">>, <<"stickyTracking", "sticky_tracking">>,
       <<"threshold", "threshold">>, <<"tooltip", "tooltip">>,
       <<"turboThreshold", "turbo_threshold">>, <<"visible", "visible">>
    >>

WordcloudData_untrimmed_keys ==
    <<
       <<"accessibility", "accessibility">>, <<"className", "class_name">>,
       <<"color", "color">>, <<"colorIndex", "color_index">>,
       <<"custom", "custom">>, <<"description", "description">>,
       <<"events", "events">>, <<"id", "id">>, <<"labelrank", "label_rank">>,
       <<"name", "name">>, <<"selected", "selected">>,
       <<"dataLabels", "data_labels">>, <<"dragDrop", "drag_drop">>,
       <<"weight", "weight">>
    >>

PictorialPaths_untrimmed_keys ==
    << <<"definition", "definition">>, <<"max", "max">> >>

-----------------------------------------------------------------------------
(* Construction, from_dict and to_dict *)

Classes ==
    {"AxisMarker", "PaneBackground", "Pane", "GenericTypeOptions",
     "WordcloudData", "PictorialPaths"}

init_args(cls) ==
    CASE cls = "AxisMarker" -> AxisMarker_init_args
      [] cls = "PaneBackground" -> PaneBackground_init_args
      [] cls = "Pane" -> Pane_init_args
      [] cls = "GenericTypeOptions" -> GenericTypeOptions_init_args
      [] cls = "WordcloudData" -> WordcloudData_init_args
      [] cls = "PictorialPaths" -> PictorialPaths_init_args
      [] cls = "Chart" -> << <<"options", None>> >>

kwargs_keys(cls) ==
    CASE cls = "AxisMarker" -> AxisMarker_kwargs_keys
      [] cls = "PaneBackground" -> PaneBackground_kwargs_keys
      [] cls = "Pane" -> Pane_kwargs_keys
      [] cls = "GenericTypeOptions" -> GenericTypeOptions_kwargs_keys
      [] cls = "WordcloudData" -> WordcloudData_kwargs_keys
      [] cls = "PictorialPaths" -> PictorialPaths_kwargs_keys
      [] cls = "Chart" -> << <<"options", "options", None>> >>

\* A to_dict of PaneBackground that writes the two radii under each other's
\* key.
untrimmed_keys_RadiiSwapped(cls) ==
    CASE cls = "AxisMarker" -> AxisMarker_untrimmed_keys
      [] cls = "PaneBackground" ->
            [i \in DOMAIN PaneBackground_untrimmed_keys |->
                LET e == PaneBackground_untrimmed_keys[i] IN
                IF e[2] = "inner_radius" THEN <<e[1], "outer_radius">>
                ELSE IF e[2] = "outer_radius" THEN <<e[1], "inner_radius">>
                ELSE e]
      [] cls = "Pane" -> Pane_untrimmed_keys
      [] cls = "GenericTypeOptions" -> GenericTypeOptions_untrimmed_keys
      [] cls = "WordcloudData" -> WordcloudData_untrimmed_keys
      [] cls = "PictorialPaths" -> PictorialPaths_untrimmed_keys
      [] cls = "Chart" -> << <<"options", "options">> >>

untrimmed_keys(cls) ==
    CASE cls = "AxisMarker" -> AxisMarker_untrimmed_keys
      [] cls = "PaneBackground" -> PaneBackground_untrimmed_keys
      [] cls = "Pane" -> Pane_untrimmed_keys
      [] cls = "GenericTypeOptions" -> GenericTypeOptions_untrimmed_keys
      [] cls = "WordcloudData" -> WordcloudData_untrimmed_keys
      [] cls = "PictorialPaths" -> PictorialPaths_untrimmed_keys
      [] cls = "Chart" -> << <<"options", "options">> >>

\* The property setter of cls.attr applied to value: the value it stores, or
\* the exception it raises.
Setter(cls, attr, value) ==
    CASE cls = "AxisMarker" -> AxisMarker_set(attr, value)
      [] cls = "PaneBackground" -> PaneBackground_set(attr, value)
      [] cls = "Pane" -> Pane_set(attr, value)
      [] cls = "GenericTypeOptions" -> GenericTypeOptions_set(attr, value)
      [] cls = "WordcloudData" -> WordcloudData_set(attr, value)
      [] cls = "PictorialPaths" -> PictorialPaths_set(attr, value)
      [] cls = "Chart" -> Chart_set(attr, value)

Slots(cls) == {init_args(cls)[i][1] : i \in DOMAIN init_args(cls)}

\* self._x = None for every slot: the first lines of __init__.
Unset(cls) == [a \in Slots(cls) |-> None]

\* dict.pop(key, default) / dict.get(key, default): the value read.
Get(mapping, key, default) ==
    IF key \in DOMAIN mapping THEN mapping[key] ELSE default

\* An assignment that stores the value it was given before its setter
\* validates it.
setattr_StoredBeforeValidation(cls, self, attr, value) ==
    LET Store(r) ==
            [self |-> IF r.exc = "none" THEN [self EXCEPT ![attr] = r.v]
                      ELSE [self EXCEPT ![attr] = value],
             exc |-> r.exc, msg |-> r.msg]
    IN Store(Setter(cls, attr, value))

\* self.attr = value
setattr(cls, self, attr, value) ==
    LET Store(r) ==
            [self |-> IF r.exc = "none" THEN [self EXCEPT ![attr] = r.v] ELSE self,
             exc |-> r.exc, msg |-> r.msg]
    IN Store(Setter(cls, attr, value))

\* cls(**kwargs): every slot is None, then the assignments run in order, each
\* with the keyword argument or its default; the first exception ends
\* __init__ and leaves the later slots None.
init(cls, kwargs) ==
    LET Results(args) ==
            [i \in DOMAIN args |->
                Setter(cls, args[i][1], Get(kwargs, args[i][1], args[i][2]))]
        Stop(res) ==
            IF \A i \in DOMAIN res : res[i].exc = "none" THEN Len(res) + 1
            ELSE CHOOSE i \in DOMAIN res :
                    /\ res[i].exc # "none"
                    /\ \A j \in DOMAIN res : res[j].exc # "none" => i <= j
        Outcome(args, res, stop) ==
            [self |-> [a \in {args[i][1] : i \in DOMAIN args} |->
                        IF \E i \in 1..(stop - 1) : args[i][1] = a
                        THEN res[CHOOSE i \in DOMAIN args : args[i][1] = a].v
                        ELSE None],
             exc |-> IF stop > Len(args) THEN "none" ELSE res[stop].exc,
             at |-> IF stop > Len(args) THEN "" ELSE args[stop][1],
             msg |-> IF stop > Len(args) THEN NoMsg ELSE res[stop].msg]
        Run(args, res) == Outcome(args, res, Stop(res))
        Start(args) == Run(args, Results(args))
    IN Start(init_args(cls))

\* The kwargs from_dict builds: every slot, from its external key or its
\* default.
get_kwargs_from_dict(cls, as_dict) ==
    LET keys == kwargs_keys(cls) IN
    [a \in {keys[i][1] : i \in DOMAIN keys} |->
        LET i == CHOOSE i \in DOMAIN keys :
                    /\ keys[i][1] = a
                    /\ \A j \in DOMAIN keys : keys[j][1] = a => j <= i
        IN Get(as_dict, keys[i][2], keys[i][3])]

\* A from_dict that rejects a mapping with a key the class does not declare.
from_dict_DeclaredKeysOnly(cls, as_dict) ==
    IF \E k \in DOMAIN as_dict :
            \A i \in DOMAIN kwargs_keys(cls) : kwargs_keys(cls)[i][2] # k
    THEN [self |-> Unset(cls), exc |-> "HighchartsValueError", at |-> "",
          msg |-> NoMsg]
    ELSE init(cls, get_kwargs_from_dict(cls, as_dict))

\* cls.from_dict(as_dict)
from_dict(cls, as_dict) == init(cls, get_kwargs_from_dict(cls, as_dict))

\* How from_dict / _get_kwargs_from_dict reads the keys: as_dict.pop(key,
\* default) or as_dict.get(key, default).
reads_with(cls) == IF cls \in {"PictorialPaths", "Chart"} THEN "get" ELSE "pop"

\* The caller's mapping after cls.from_dict(as_dict): pop removes each key
\* it reads, before the constructor runs; get removes nothing.
after_from_dict(cls, as_dict) ==
    IF reads_with(cls) = "get" THEN as_dict
    ELSE [k \in DOMAIN as_dict \
                {kwargs_keys(cls)[i][2] : i \in DOMAIN kwargs_keys(cls)} |-> as_dict[k]]

\* `for item in value`: the items of a sequence in order, the keys of a
\* mapping (all of them strings; the model takes them in some order).
RECURSIVE KeysInOrder(_)
KeysInOrder(ks) ==
    IF ks = {} THEN << >>
    ELSE LET Rest(k) == <<Str(k)>> \o KeysInOrder(ks \ {k})
         IN Rest(CHOOSE k \in ks : TRUE)

iterate(value) == IF value.t = "mapping" THEN KeysInOrder(value.k) ELSE value.q

\* The body of the loop of WordcloudData.from_setter: the node one item
\* gives, kept (the instance itself) or built, or the error raised.
from_setter_item(item) ==
    LET Built(r) == [exc |-> r.exc, msg |-> r.msg,
                     as_obj |-> [cls |-> "WordcloudData", s |-> r.self]]
    IN IF checkers_is_type(item, "WordcloudData")
       THEN [exc |-> "none", msg |-> NoMsg, as_obj |-> item]
       ELSE IF checkers_is_dict(item)
       THEN Built(from_dict("WordcloudData", item.m))
       ELSE IF item = None \/ item.t = "EnforcedNullType"
       THEN Built(init("WordcloudData", Empty))
       ELSE [exc |-> "HighchartsValueError", as_obj |-> None,
             msg |-> [slot |-> "", value |-> item]]

\* A from_setter that leaves None items out of the collection.
from_setter_NoneSkipped(value) ==
    IF Falsy(value) THEN [exc |-> "none", collection |-> << >>, msg |-> NoMsg]
    ELSE LET Collect(res) == [exc |-> "none", collection |-> res, msg |-> NoMsg]
             Build(items) ==
                 Collect([i \in DOMAIN items |-> from_setter_item(items[i]).as_obj])
             Loop(items) ==
                 IF \E i \in DOMAIN items : from_setter_item(items[i]).exc # "none"
                 THEN [exc |-> "HighchartsValueError", collection |-> << >>,
                       msg |-> NoMsg]
                 ELSE Build(SelectSeq(items, LAMBDA x : x # None))
         IN Loop(IF checkers_is_iterable(value) THEN iterate(value) ELSE <<value>>)

\* WordcloudData.from_setter(value): the collection returned, or the error
\* of the first item that raises (and then no collection).
from_setter(value) ==
    IF Falsy(value) THEN [exc |-> "none", collection |-> << >>, msg |-> NoMsg]
    ELSE LET Stop(res) ==
                 IF \A i \in DOMAIN res : res[i].exc = "none" THEN 0
                 ELSE CHOOSE i \in DOMAIN res :
                         /\ res[i].exc # "none"
                         /\ \A j \in DOMAIN res : res[j].exc # "none" => i <= j
             Outcome(res, stop) ==
                 IF stop = 0
                 THEN [exc |-> "none", msg |-> NoMsg,
                       collection |-> [i \in DOMAIN res |-> res[i].as_obj]]
                 ELSE [exc |-> res[stop].exc, msg |-> res[stop].msg,
                       collection |-> << >>]
             Collect(res) == Outcome(res, Stop(res))
             Loop(items) ==
                 Collect([i \in DOMAIN items |-> from_setter_item(items[i])])
         IN Loop(IF checkers_is_iterable(value) THEN iterate(value) ELSE <<value>>)

\* An untrimmed mapping that leaves out the slots that are None.
to_untrimmed_dict_SetSlotsOnly(cls, self) ==
    [k \in {untrimmed_keys(cls)[i][1] : i \in
                {j \in DOMAIN untrimmed_keys(cls) :
                    self[untrimmed_keys(cls)[j][2]] # None}} |->
        self[untrimmed_keys(cls)[CHOOSE i \in DOMAIN untrimmed_keys(cls) :
                                    untrimmed_keys(cls)[i][1] = k][2]]]

\* The mapping from every external key to the slot's current value.
to_untrimmed_dict(cls, self) ==
    LET keys == untrimmed_keys(cls) IN
    [k \in {keys[i][1] : i \in DOMAIN keys} |->
        LET i == CHOOSE i \in DOMAIN keys :
                    /\ keys[i][1] = k
                    /\ \A j \in DOMAIN keys : keys[j][1] = k => j <= i
        IN self[keys[i][2]]]

\* A slot value as it appears in the mapping: a node as its own to_dict.
Serialize(v) ==
    CASE v.t = "Gradient" -> Dict({"linearGradient", "stops"}, "ok", v.n)
      [] v.t = "Pattern" -> Dict({"patternOptions"}, "ok", v.n)
      [] v.t = "list" /\ v.s \notin {"str", "pair:str", "pair:zero", "pair:num"} ->
            List("dict", v.n)
      [] v.t \in {"None", "str", "num", "bool", "dict", "list", "mapping",
                  "EnforcedNullType"} -> v
      [] OTHER -> Dict(IF v.n = 0 THEN {} ELSE {"options"}, "ok", v.n)

\* What trim removes: None, an empty sequence, an empty mapping.
Trimmed(v) ==
    \/ v.t = "None"
    \/ v.t = "list" /\ v.n = 0
    \/ v.t \in {"dict", "mapping"} /\ v.k = {}

\* HighchartsMeta.trim_dict(untrimmed): bottom-up, a nested mapping is
\* trimmed before its own entry is looked at.
RECURSIVE trim_dict(_)
trim_dict(untrimmed) ==
    LET Inner(v) == IF v.t = "mapping" THEN Mapping(trim_dict(v.m)) ELSE v
        Keep(ser) == [k \in {x \in DOMAIN ser : ~Trimmed(ser[x])} |-> ser[k]]
    IN Keep([k \in DOMAIN untrimmed |-> Inner(Serialize(untrimmed[k]))])

\* self.to_dict()
to_dict(cls, self) == trim_dict(to_untrimmed_dict(cls, self))

-----------------------------------------------------------------------------
(* The values the operations are tried on *)

ColorInputs ==
    {None, EmptyStr, EmptyDict, Str("#999999"),
     Str("{linearGradient: {x1: 0}}"), Str("linearGradient(red, blue)"),
     Str("{patternOptions: {id: 1}}"), Str("patternOptions:dots"),
     Dict({"linearGradient", "stops"}, "ok", 1),
     Dict({"linearGradient", "stops"}, "bad", 2),
     Dict({"linear_gradient", "stops"}, "bad", 3),
     Dict({"patternOptions"}, "ok", 4), Dict({"patternOptions"}, "bad", 5),
     Dict({"pattern_options"}, "bad", 6),
     Dict({"linearGradient", "patternOptions"}, "bad", 8),
     Dict({"linear_gradient", "patternOptions"}, "ok", 9),
     Dict({"foo"}, "bad", 10),
     Gradient(1), Pattern(4), Num(500), List("str", 1)}

NumberOrPercentInputs ==
    {None, EmptyStr, Num(0), Num(5000), Str("50%"), Str("fifty"), Str("50"),
     Dict({"foo"}, "bad", 10)}

NumericInputs == {None, EmptyStr, Num(0), Num(1), Num(5000), Str("50"), Str("fifty")}

StringInputs == {None, EmptyStr, Str("highcharts-pane"), Num(5000)}

EnumInputs ==
    {None, EmptyStr, Str("circle"), Str("Circle"), Str("solid"), Str("arc"),
     Str("hexagon"), Str("pointer"), Str("POINTER"), Str("Dash"), Str("dash"),
     Num(5000)}

BoolInputs == {None, Bool(TRUE), Bool(FALSE), Num(0), Str("fifty")}

NodeInputs(cls) ==
    {None, Node(cls, 1), Dict({"options"}, "ok", 1), EmptyDict, Str("fifty"),
     List(cls, 2), List("dict", 1)}

CenterInputs ==
    {None, List("pair:str", 1), List("pair:zero", 1), List("pair:num", 1),
     List("str", 2), List("str", 0)}

ThresholdInputs == {None, EnforcedNull, Num(0), Num(5000), Num(50), Str("fifty")}

\* The values tried on slot attr of class cls.
InputsFor(cls, attr) ==
    CASE attr \in {"color", "background_color", "border_color"} -> ColorInputs
      [] attr \in {"inner_radius", "outer_radius", "inner_size", "size"} ->
            NumberOrPercentInputs
      [] attr \in {"width", "border_width", "end_angle", "start_angle", "weight",
                   "max", "opacity", "color_index", "label_rank"} -> NumericInputs
      [] attr \in {"threshold", "turbo_threshold"} -> ThresholdInputs
      [] attr \in {"shape", "cursor", "dash_style"} -> EnumInputs
      [] attr = "center" -> CenterInputs
      [] attr = "custom" -> {None, EmptyDict, Dict({"foo"}, "bad", 10), Str("fifty")}
      [] attr = "keys" -> {None, List("str", 2), Str("fifty")}
      [] attr = "animation" /\ cls = "AxisMarker" ->
            NodeInputs("AnimationOptions") \cup {Bool(FALSE), Bool(TRUE)}
      [] attr = "background" -> NodeInputs("PaneBackground")
      [] attr = "options" ->
            NodeInputs("HighchartsOptions") \cup {Node("SharedOptions", 1)}
      [] attr = "data_labels" -> NodeInputs("DataLabel")
      [] attr = "drag_drop" -> NodeInputs("DragDropOptions")
      [] attr = "definition" -> NodeInputs("AttributeObject")
      [] cls = "GenericTypeOptions" /\ attr \in DOMAIN GenericTypeOptions_node_slots ->
            NodeInputs(GenericTypeOptions_node_slots[attr])
      [] attr = "accessibility" -> NodeInputs("DataPointAccessibility")
      [] attr = "events" -> NodeInputs("PointEvents")
      [] attr \in {"class_name", "description", "linked_to", "id", "name",
                   "point_description_formatter"} -> StringInputs
      [] OTHER -> BoolInputs

\* The external key from_dict reads for slot attr.
ExternalKey(cls, attr) ==
    LET keys == kwargs_keys(cls)
        i == CHOOSE i \in DOMAIN keys : keys[i][1] = attr
    IN keys[i][2]

\* A key no class declares.
UnknownKey == "zIndexLegacy"


\* The values of a mapping given to trim: the empty ones, false, 0 and
\* ordinary ones.
TrimLeaves ==
    {None, EmptyStr, Str("fifty"), Num(0), Num(5000), Bool(FALSE),
     List("str", 0), List("str", 2)}

\* Mappings nested one and two levels deep.
TrimInner ==
    {Mapping(Empty)} \cup
    {Mapping("enabled" :> v) : v \in {None, Bool(FALSE), Num(0), List("str", 0)}}

TrimNested ==
    TrimInner \cup {Mapping("style" :> v) : v \in TrimLeaves \cup TrimInner}

\* The mappings given to trim: up to two keys over those values.
TrimInputs ==
    LET values == TrimLeaves \cup TrimNested IN
    {Empty} \cup {"width" :> v : v \in values} \cup {"label" :> v : v \in values}
    \cup {("width" :> v) @@ ("label" :> w) : v \in values, w \in values}

\* The items of a sequence given to from_setter: instances, mappings (one
\* of them empty, one that from_dict rejects), None, EnforcedNull, and
\* values that are none of these.
FromSetterItems ==
    {Node("WordcloudData", 1), Node("WordcloudData", 2),
     Mapping("weight" :> Num(5000)), Mapping(Empty),
     Mapping("weight" :> Str("fifty")), None, EnforcedNull, Str("fifty"),
     Num(5000)}

RECURSIVE SeqsOver(_, _)
SeqsOver(S, n) ==
    IF n = 0 THEN {<< >>}
    ELSE SeqsOver(S, n - 1) \cup
         {Append(q, x) : q \in {r \in SeqsOver(S, n - 1) : Len(r) = n - 1}, x \in S}

\* The values given to from_setter: falsy ones, one mapping, one instance,
\* one value that is neither, and sequences of up to MaxItems items.
FromSetterInputs ==
    {None, Num(0), EmptyStr, Bool(FALSE), Mapping(Empty),
     Mapping("weight" :> Num(5000)),
     Mapping(("name" :> Str("fifty")) @@ ("weight" :> Num(5000))),
     Node("WordcloudData", 1), Str("fifty"), Num(5000)}
    \cup {Items(q) : q \in SeqsOver(FromSetterItems, MaxItems)}

\* Keyword arguments: none, one slot given, (AxisMarker) one slot given
\* beside color = None, (GenericTypeOptions) clip = False with threshold = 0,
\* or (PaneBackground) one slot given beside both colours given as None.
KwargsFor(cls) ==
    {Empty}
    \cup {a :> v : <<a, v>> \in
            UNION {{<<a, v>> : v \in InputsFor(cls, a)} : a \in Slots(cls)}}
    \cup (IF cls # "AxisMarker" THEN {}
          ELSE {("color" :> None) @@ (a :> v) :
                 <<a, v>> \in UNION {{<<a, v>> : v \in InputsFor(cls, a)} :
                                      a \in Slots(cls) \ {"color"}}})
    \cup (IF cls # "GenericTypeOptions" THEN {}
          ELSE {("clip" :> Bool(FALSE)) @@ ("threshold" :> Num(0))})
    \cup IF cls # "PaneBackground" THEN {}
         ELSE {("background_color" :> None) @@ ("border_color" :> None) @@ (a :> v) :
                 <<a, v>> \in UNION {{<<a, v>> : v \in InputsFor(cls, a)} :
                                      a \in Slots(cls) \ {"background_color",
                                                          "border_color"}}}

\* External mappings: none, one declared key, each with and without a key
\* the class does not declare; and one slot given under its snake_case name
\* where that differs from the external key.
MappingsFor(cls) ==
    LET base == {Empty} \cup
                {ExternalKey(cls, a) :> v : <<a, v>> \in
                    UNION {{<<a, v>> : v \in InputsFor(cls, a)} : a \in Slots(cls)}}
    IN base \cup {(UnknownKey :> Str("fifty")) @@ m : m \in base}
       \cup {a :> v : <<a, v>> \in
                UNION {{<<a, v>> : v \in InputsFor(cls, a)} :
                        a \in {s \in Slots(cls) : ExternalKey(cls, s) # s}}}

\* The child instances that parents share: Gradient and Pattern instances
\* for a colour slot, WordcloudData instances for a list.
ColourChildren ==
    {Node("Gradient", 1), Node("Gradient", 2), Node("Pattern", 1), Node("Pattern", 2)}
DataChildren == {Node("WordcloudData", 1), Node("WordcloudData", 2)}
Children == ColourChildren \cup DataChildren
\* The children the model mutates after they were attached.
Mutated == {Node("Gradient", 1), Node("Pattern", 1)} \cup DataChildren

\* The slots of a child as constructed: WordcloudData() as its __init__
\* leaves it, a Gradient or Pattern by its one slot the model follows.
NewChild(c) ==
    IF c.t = "WordcloudData" THEN init("WordcloudData", Empty).self
    ELSE ("stops" :> None)

\* The values a mutation assigns to a child: weight of a WordcloudData,
\* stops of a Gradient or Pattern.
MutationsOf(c) ==
    IF c.t = "WordcloudData" THEN {Num(50), Num(5000)}
    ELSE {List("str", 2), List("str", 3)}

\* child.to_dict() for a child whose slots are the heap's.
child_to_dict(h, c) ==
    IF c.t = "WordcloudData" THEN to_dict("WordcloudData", h[c]) ELSE trim_dict(h[c])

\* node.to_dict() for a node that holds children by reference: each child
\* is serialized with the slots it has now.
to_dict_sharing(h, cls, self) ==
    LET Nested(v) == IF v \in DOMAIN h THEN Mapping(child_to_dict(h, v)) ELSE v
        Expand(u) == trim_dict([k \in DOMAIN u |-> Nested(u[k])])
    IN Expand(to_untrimmed_dict(cls, self))

-----------------------------------------------------------------------------
(* The state machine *)

NoOp == [name |-> "none", cls |-> "", attr |-> "", value |-> None]

Init ==
    /\ defaults \in {"unset", "documented"}
    /\ obj = [cls |-> "AxisMarker", s |-> Unset("AxisMarker")]
    /\ alive = FALSE
    /\ raised = "none"
    /\ raised_at = ""
    /\ msg = NoMsg
    /\ out = Empty
    /\ op = NoOp
    /\ arg = Empty
    /\ before = obj
    /\ nassign = 0
    /\ heap = [c \in Children |-> NewChild(c)]
    /\ parents = [p \in 1..2 |-> init("AxisMarker", Empty).self]
    /\ collections = [c \in 1..2 |-> from_setter(None).collection]
    /\ caller_dict = Empty

\* obj = cls(**kwargs)
Construct(cls, kwargs) ==
    \E r \in {init(cls, kwargs)} :
    /\ obj' = [cls |-> cls, s |-> r.self]
    /\ alive' = (r.exc = "none")
    /\ raised' = r.exc
    /\ raised_at' = r.at
    /\ msg' = r.msg
    /\ out' = Empty
    /\ op' = [name |-> "init", cls |-> cls, attr |-> "", value |-> None]
    /\ arg' = kwargs
    /\ before' = [cls |-> cls, s |-> Unset(cls)]
    /\ nassign' = 0
    /\ caller_dict' = Empty
    /\ UNCHANGED <<defaults, shared>>

\* obj.attr = value
Assign(attr, value) ==
    /\ alive
    /\ nassign < MaxAssign
    /\ \E r \in {setattr(obj.cls, obj.s, attr, value)} :
        /\ obj' = [obj EXCEPT !.s = r.self]
        /\ raised' = r.exc
        /\ raised_at' = IF r.exc = "none" THEN "" ELSE attr
        /\ msg' = r.msg
    /\ out' = Empty
    /\ op' = [name |-> "set", cls |-> obj.cls, attr |-> attr, value |-> value]
    /\ arg' = Empty
    /\ before' = obj
    /\ nassign' = nassign + 1
    /\ caller_dict' = Empty
    /\ UNCHANGED <<defaults, alive, shared>>

\* obj = cls.from_dict(as_dict)
FromDict(cls, as_dict) ==
    \E r \in {from_dict(cls, as_dict)} :
    /\ obj' = [cls |-> cls, s |-> r.self]
    /\ alive' = (r.exc = "none")
    /\ raised' = r.exc
    /\ raised_at' = r.at
    /\ msg' = r.msg
    /\ out' = Empty
    /\ op' = [name |-> "from_dict", cls |-> cls, attr |-> "", value |-> None]
    /\ arg' = as_dict
    /\ before' = [cls |-> cls, s |-> Unset(cls)]
    /\ nassign' = 0
    /\ caller_dict' = after_from_dict(cls, as_dict)
    /\ UNCHANGED <<defaults, shared>>

\* obj = cls.from_dict(as_dict) once more, with the mapping object the call
\* before was given; arg stays the mapping as it first was, before the node
\* the first call returned.
FromDictAgain ==
    /\ op.name = "from_dict"
    /\ \E r \in {from_dict(op.cls, caller_dict)} :
          /\ obj' = [cls |-> op.cls, s |-> r.self]
          /\ alive' = (r.exc = "none")
          /\ raised' = r.exc
          /\ raised_at' = r.at
          /\ msg' = r.msg
    /\ out' = Empty
    /\ op' = [op EXCEPT !.name = "from_dict_again"]
    /\ before' = obj
    /\ nassign' = 0
    /\ caller_dict' = after_from_dict(op.cls, caller_dict)
    /\ UNCHANGED <<defaults, arg, shared>>

\* obj = type(obj).from_dict(obj.to_dict()), the mapping with or without a key
\* the class does not declare; before is the node that was serialized.
RoundTrip(extra) ==
    /\ alive
    /\ nassign < MaxAssign
    /\ \E as_dict \in {extra @@ to_dict(obj.cls, obj.s)} :
       \E r \in {from_dict(obj.cls, as_dict)} :
          /\ obj' = [obj EXCEPT !.s = r.self]
          /\ alive' = (r.exc = "none")
          /\ raised' = r.exc
          /\ raised_at' = r.at
          /\ msg' = r.msg
          /\ arg' = as_dict
          /\ caller_dict' = after_from_dict(obj.cls, as_dict)
    /\ out' = Empty
    /\ op' = [name |-> "round_trip", cls |-> obj.cls, attr |-> "", value |-> None]
    /\ before' = obj
    /\ nassign' = nassign + 1
    /\ UNCHANGED <<defaults, shared>>

\* obj.to_dict(): the mapping returned; arg stays what built the node.
ToDict ==
    /\ alive
    /\ op.name # "to_dict"
    /\ op' = [name |-> "to_dict", cls |-> obj.cls, attr |-> "", value |-> None]
    /\ out' = to_dict(obj.cls, obj.s)
    /\ raised' = "none"
    /\ raised_at' = ""
    /\ msg' = NoMsg
    /\ before' = obj
    /\ caller_dict' = Empty
    /\ UNCHANGED <<defaults, obj, alive, arg, nassign, shared>>

\* trim_dict(x)
Trim(x) ==
    /\ op = NoOp
    /\ out' = trim_dict(x)
    /\ op' = [name |-> "trim", cls |-> "", attr |-> "", value |-> None]
    /\ arg' = x
    /\ UNCHANGED <<defaults, obj, alive, raised, raised_at, msg, before, nassign, shared, caller_dict>>

\* trim_dict(trim_dict(x)): trim applied to what trim returned.
TrimAgain ==
    /\ op.name = "trim"
    /\ out' = trim_dict(out)
    /\ op' = [op EXCEPT !.name = "trim_again"]
    /\ UNCHANGED <<defaults, obj, alive, raised, raised_at, msg, arg, before, nassign, shared, caller_dict>>

\* WordcloudData.from_setter(value)
FromSetter(value) ==
    /\ op = NoOp
    /\ \E r \in {from_setter(value)} :
          /\ out' = r.collection
          /\ raised' = r.exc
          /\ msg' = r.msg
    /\ raised_at' = ""
    /\ op' = [name |-> "from_setter", cls |-> "WordcloudData", attr |-> "",
              value |-> None]
    /\ arg' = value
    /\ UNCHANGED <<defaults, obj, alive, before, nassign, shared, caller_dict>>

\* The operations on shared children run on their own, after none of the
\* operations on obj.
Sharing(cls) == op = NoOp \/ (op.name \in {"attach", "mutate"} /\ op.cls = cls)

\* parents[p].color = child, child an existing Gradient or Pattern.
AttachColour(p, child) ==
    /\ Sharing("AxisMarker")
    /\ \E r \in {setattr("AxisMarker", parents[p], "color", child)} :
          /\ parents' = [parents EXCEPT ![p] = r.self]
          /\ raised' = r.exc
          /\ raised_at' = IF r.exc = "none" THEN "" ELSE "color"
          /\ msg' = r.msg
    /\ op' = [name |-> "attach", cls |-> "AxisMarker", attr |-> "color",
              value |-> child]
    /\ UNCHANGED <<defaults, obj, alive, out, arg, before, nassign, heap, collections,
                   caller_dict>>

\* collections[c] = WordcloudData.from_setter(items), items existing
\* WordcloudData instances.
AttachData(c, items) ==
    /\ Sharing("WordcloudData")
    /\ \E r \in {from_setter(Items(items))} :
          /\ collections' = [collections EXCEPT ![c] = r.collection]
          /\ raised' = r.exc
          /\ msg' = r.msg
    /\ raised_at' = ""
    /\ op' = [name |-> "attach", cls |-> "WordcloudData", attr |-> "", value |-> None]
    /\ arg' = Items(items)
    /\ UNCHANGED <<defaults, obj, alive, out, before, nassign, heap, parents,
                   caller_dict>>

\* child.weight = value / child.stops = value, on a child some parent may
\* hold.
MutateChild(child, value) ==
    /\ Sharing(IF child.t = "WordcloudData" THEN "WordcloudData" ELSE "AxisMarker")
    /\ op.name \in {"attach", "mutate"}
    /\ IF child.t = "WordcloudData"
       THEN \E r \in {setattr("WordcloudData", heap[child], "weight", value)} :
               /\ heap' = [heap EXCEPT ![child] = r.self]
               /\ raised' = r.exc
               /\ msg' = r.msg
       ELSE /\ heap' = [heap EXCEPT ![child] = ("stops" :> value)]
            /\ raised' = "none"
            /\ msg' = NoMsg
    /\ raised_at' = ""
    /\ op' = [name |-> "mutate", cls |-> op.cls, attr |-> "", value |-> child]
    /\ UNCHANGED <<defaults, obj, alive, out, arg, before, nassign, parents,
                   collections, caller_dict>>

Next ==
    \/ op = NoOp /\ \E cls \in Classes : \E kwargs \in KwargsFor(cls) :
          Construct(cls, kwargs)
    \/ \E attr \in Slots(obj.cls) : \E value \in InputsFor(obj.cls, attr) :
          Assign(attr, value)
    \/ op = NoOp /\ \E cls \in Classes : \E as_dict \in MappingsFor(cls) :
          FromDict(cls, as_dict)
    \/ FromDictAgain
    \/ \E extra \in {Empty, UnknownKey :> Str("fifty")} : RoundTrip(extra)
    \/ ToDict
    \/ op = NoOp /\ Construct("Chart", Empty)
    \/ op = NoOp /\ \E x \in TrimInputs : Trim(x)
    \/ TrimAgain
    \/ op = NoOp /\ \E value \in FromSetterInputs : FromSetter(value)
    \/ \E p \in 1..2 : \E child \in ColourChildren : AttachColour(p, child)
    \/ \E c \in 1..2 :
          \E items \in {q \in SeqsOver(DataChildren, MaxItems) : q # << >>} :
             AttachData(c, items)
    \/ \E child \in Mutated : \E value \in MutationsOf(child) :
          MutateChild(child, value)

Spec == Init /\ [][Next]_vars

-----------------------------------------------------------------------------
(* What the last operation did to one slot *)

\* The polymorphic colour slots.
ColourSlots ==
    {<<"AxisMarker", "color">>, <<"PaneBackground", "background_color">>,
     <<"PaneBackground", "border_color">>, <<"GenericTypeOptions", "color">>}

\* The numeric-or-percentage slots.
RadiusSlots ==
    {<<"PaneBackground", "inner_radius">>, <<"PaneBackground", "outer_radius">>}

SizeSlots == RadiusSlots \cup {<<"Pane", "inner_size">>, <<"Pane", "size">>}

\* The enumerated slots.
EnumSlots ==
    {<<"PaneBackground", "shape">>, <<"GenericTypeOptions", "cursor">>,
     <<"GenericTypeOptions", "dash_style">>}

\* The position of slot attr among the assignments of __init__.
Index(cls, attr) ==
    CHOOSE i \in DOMAIN init_args(cls) : init_args(cls)[i][1] = attr

\* The last operation handed a value to the setter of p = <<cls, attr>>: an
\* assignment, a keyword argument, or a key of the mapping from_dict read.
Given(p) ==
    /\ op.cls = p[1]
    /\ CASE op.name = "set" -> op.attr = p[2]
         [] op.name = "init" -> p[2] \in DOMAIN arg
         [] op.name \in {"from_dict", "round_trip"} ->
                ExternalKey(p[1], p[2]) \in DOMAIN arg
         [] OTHER -> FALSE

GivenValue(p) ==
    CASE op.name = "set" -> op.value
      [] op.name = "init" -> arg[p[2]]
      [] OTHER -> arg[ExternalKey(p[1], p[2])]

\* ... and that setter ran: no earlier assignment of __init__ raised.
Ran(p) ==
    /\ Given(p)
    /\ \/ op.name = "set"
       \/ raised_at = ""
       \/ Index(p[1], raised_at) >= Index(p[1], p[2])

\* The setter of p raised exc / returned.
SetterRaised(p, exc) == raised_at = p[2] /\ raised = exc
SetterReturned(p) == raised_at # p[2]

\* The slot p now, and before an assignment (None inside __init__).
Slot(p) == obj.s[p[2]]
SlotBefore(p) == IF op.name = "set" THEN before.s[p[2]] ELSE None

HasGradientKey(v) ==
    v.t = "dict" /\ (Contains(v, "linearGradient") \/ Contains(v, "linear_gradient"))
HasPatternKey(v) ==
    v.t = "dict" /\ (Contains(v, "patternOptions") \/ Contains(v, "pattern_options"))

-----------------------------------------------------------------------------
(* The polymorphic colour slots *)

\* C3: a non-empty plain colour string without a Gradient or Pattern
\* discriminator, such as "#999999", assigned to a polymorphic colour slot
\* is accepted and stored unchanged.
C3_PlainStringStored ==
    \A p \in ColourSlots :
        (Ran(p) /\ GivenValue(p) = Str("#999999")) =>
            SetterReturned(p) /\ Slot(p) = Str("#999999")

\* C4 as stated: a mapping with a Gradient key stores a Gradient, a mapping
\* with a Pattern key stores a Pattern, an instance is stored as-is, and the
\* slot only ever holds None, a string, a Gradient or a Pattern.
C4_DiscriminatorDecides ==
    \A p \in ColourSlots :
        /\ Ran(p) =>
              LET v == GivenValue(p) IN
              /\ HasGradientKey(v) => SetterReturned(p) /\ Slot(p).t = "Gradient"
              /\ HasPatternKey(v) => SetterReturned(p) /\ Slot(p).t = "Pattern"
              /\ v.t \in {"Gradient", "Pattern"} => SetterReturned(p) /\ Slot(p) = v
        /\ obj.cls = p[1] => Slot(p).t \in {"None", "str", "Gradient", "Pattern"}

\* C4 amended: a mapping with a Gradient key stores a Gradient whether or
\* not it also has a Pattern key; a mapping with a Pattern key and no
\* Gradient key stores a Pattern; an instance is stored as-is; the slot only
\* ever holds None, a string, a Gradient or a Pattern.
C4_GradientKeyFirst ==
    \A p \in ColourSlots :
        /\ Ran(p) =>
              LET v == GivenValue(p) IN
              /\ HasGradientKey(v) => SetterReturned(p) /\ Slot(p).t = "Gradient"
              /\ (HasPatternKey(v) /\ ~HasGradientKey(v)) =>
                    SetterReturned(p) /\ Slot(p).t = "Pattern"
              /\ v.t \in {"Gradient", "Pattern"} => SetterReturned(p) /\ Slot(p) = v
        /\ obj.cls = p[1] => Slot(p).t \in {"None", "str", "Gradient", "Pattern"}

\* C4 witness: a mapping with both a Pattern key and a Gradient key was
\* assigned to a live node and the slot holds a Gradient.
C4_Witness ==
    \E p \in ColourSlots :
        /\ op.name = "set" /\ Ran(p)
        /\ HasPatternKey(op.value) /\ HasGradientKey(op.value)
        /\ raised = "none" /\ Slot(p).t = "Gradient"

\* C5: assigning the empty string, the empty mapping or None to a
\* polymorphic colour slot never raises and leaves the slot None, whatever
\* it held before.
C5_FalsyUnsets ==
    \A p \in ColourSlots :
        (Ran(p) /\ GivenValue(p) \in {EmptyStr, EmptyDict, None}) =>
            SetterReturned(p) /\ Slot(p) = None

\* C5 witness: a slot that held a Gradient or a Pattern was assigned the
\* empty mapping and is None.
C5_Witness ==
    \E p \in ColourSlots :
        /\ op.name = "set" /\ Ran(p) /\ op.value = EmptyDict
        /\ SlotBefore(p).t \in {"Gradient", "Pattern"}
        /\ raised = "none" /\ Slot(p) = None

\* C6: a non-empty mapping with none of the four discriminator keys, or a
\* non-empty value that is no string, mapping, Gradient or Pattern, assigned
\* to a polymorphic colour slot raises HighchartsValueError and the slot
\* keeps what it held.
C6_NoVariantRejected ==
    \A p \in ColourSlots :
        LET v == GivenValue(p) IN
        (/\ Ran(p)
         /\ ~Falsy(v)
         /\ \/ v.t = "dict" /\ ~HasGradientKey(v) /\ ~HasPatternKey(v)
            \/ v.t \notin {"str", "dict", "Gradient", "Pattern"}) =>
            /\ SetterRaised(p, "HighchartsValueError")
            /\ Slot(p) = SlotBefore(p)
            /\ op.name = "set" => obj = before

\* C6 witness: a mapping with the one key foo was assigned to a slot that
\* held a Gradient or a Pattern, the assignment raised and the slot holds
\* what it held.
C6_Witness ==
    \E p \in ColourSlots :
        /\ op.name = "set" /\ Ran(p) /\ op.value.t = "dict" /\ op.value.k = {"foo"}
        /\ SlotBefore(p).t \in {"Gradient", "Pattern"}
        /\ raised = "HighchartsValueError" /\ Slot(p) = SlotBefore(p)

-----------------------------------------------------------------------------
(* The numeric-or-percentage slots *)

\* C7: PaneBackground.inner_radius and outer_radius store the number 50
\* when assigned 50, the string "50%" when assigned "50%" and None when
\* assigned None, and none of the three raises.
C7_NumberOrPercentStored ==
    \A p \in RadiusSlots :
        (Ran(p) /\ GivenValue(p) \in {Num(5000), Str("50%"), None}) =>
            SetterReturned(p) /\ Slot(p) = GivenValue(p)

\* C8: a string that is neither numeric nor a percentage, such as "fifty",
\* assigned to a numeric-or-percentage slot raises HighchartsValueError and
\* is never stored.
C8_NonNumericTextRejected ==
    \A p \in SizeSlots :
        (Ran(p) /\ GivenValue(p) = Str("fifty")) =>
            SetterRaised(p, "HighchartsValueError") /\ Slot(p) # Str("fifty")

-----------------------------------------------------------------------------
(* The enumerated slots *)

\* The values slot p may hold, and the text the setter looks up.
Supported(p) ==
    CASE p[2] = "shape" -> {"circle", "solid", "arc"}
      [] p[2] = "cursor" -> SUPPORTED_CURSOR_VALUES
      [] p[2] = "dash_style" -> SUPPORTED_DASH_STYLE_VALUES

LookedUp(p, x) == IF p[2] = "dash_style" THEN x ELSE Lower(x)

-----------------------------------------------------------------------------
(* from_dict and to_dict *)

\* The mapping without the key no class declares.
WithoutUnknownKey(mapping) ==
    [k \in DOMAIN mapping \ {UnknownKey} |-> mapping[k]]

\* C10: from_dict on a mapping with a key the class does not declare does
\* what it does on the same mapping without the key: where that builds a
\* node it returns an equal node without raising, and the key is not in the
\* to_dict of that node.
C10_UnknownKeyIgnored ==
    (op.name \in {"from_dict", "round_trip"} /\ UnknownKey \in DOMAIN arg) =>
        LET r == from_dict(op.cls, WithoutUnknownKey(arg)) IN
        /\ raised = r.exc
        /\ obj.s = r.self
        /\ alive => UnknownKey \notin DOMAIN to_dict(op.cls, obj.s)

\* C10 witness: from_dict read a mapping with a declared key and the
\* undeclared one, returned a node that holds the declared value, and the
\* to_dict of the node has the declared key only.
C10_Witness ==
    /\ op.name = "from_dict" /\ UnknownKey \in DOMAIN arg
    /\ alive /\ raised = "none"
    /\ \E k \in DOMAIN arg \ {UnknownKey} :
          DOMAIN to_dict(op.cls, obj.s) = {k}

\* The node read back agrees with the node serialized on every slot that
\* was set.
SetSlotsAgree ==
    \A a \in Slots(op.cls) : before.s[a] # None => obj.s[a] = before.s[a]

\* ... and on every slot that was unset.
UnsetSlotsAgree ==
    \A a \in Slots(op.cls) : before.s[a] = None => obj.s[a] = None

\* C1: every node type builds a node from valid constructor inputs, the
\* empty ones among them, and the node read back from the to_dict of a node
\* is built without raising and agrees with it on every slot that was set.
C1_RoundTrip ==
    /\ (op.name = "init" /\ arg = Empty) => raised = "none"
    /\ (op.name = "round_trip" /\ UnknownKey \notin DOMAIN arg) =>
            raised = "none" /\ SetSlotsAgree

\* C2: a slot that is None in a node is None in the node read back from its
\* to_dict, a PaneBackground or Pane slot given None explicitly included.
C2_UnsetStaysUnset ==
    (op.name = "round_trip" /\ UnknownKey \notin DOMAIN arg /\ raised = "none") =>
        UnsetSlotsAgree

-----------------------------------------------------------------------------
(* Serialization *)

\* The last operation is to_dict on a node as cls(**kwargs) built it.
SerializedAsBuilt(cls, kwargs) ==
    op.name = "to_dict" /\ op.cls = cls /\ nassign = 0 /\ arg = kwargs

\* C11: an AxisMarker constructed with width = 0.01 and color = None
\* serializes to exactly {"width": 0.01}: the unset color and animation are
\* omitted, the small width is kept. (Numbers are in hundredths.)
C11_SmallWidthKept ==
    SerializedAsBuilt("AxisMarker", ("color" :> None) @@ ("width" :> Num(1))) =>
        out = ("width" :> Num(1))

\* C11 witness: to_dict ran on that node, whose color and animation are None,
\* and returned the width alone.
C11_Witness ==
    /\ SerializedAsBuilt("AxisMarker", ("color" :> None) @@ ("width" :> Num(1)))
    /\ before.s["color"] = None /\ before.s["animation"] = None
    /\ DOMAIN out = {"width"} /\ out["width"].n = 1

\* The external keys from_dict reads for cls.
DeclaredKeys(cls) == {kwargs_keys(cls)[i][2] : i \in DOMAIN kwargs_keys(cls)}

\* C12: to_dict of a node is trim of its untrimmed mapping, and the
\* untrimmed mapping has every declared external key of the class exactly
\* once, bound to the value of its slot, None for an unset slot; the classes
\* with _to_untrimmed_dict and the classes that build the mapping in to_dict
\* alike.
C12_ToDictIsTrimOfUntrimmed ==
    /\ \A cls \in Classes :
          LET keys == untrimmed_keys(cls) IN
          /\ \A i, j \in DOMAIN keys : keys[i][1] = keys[j][1] => i = j
          /\ {keys[i][1] : i \in DOMAIN keys} = DeclaredKeys(cls)
          /\ {keys[i][2] : i \in DOMAIN keys} = Slots(cls)
    /\ op.name = "to_dict" =>
          LET u == to_untrimmed_dict(op.cls, before.s)
              keys == untrimmed_keys(op.cls)
          IN /\ out = trim_dict(u)
             /\ DOMAIN u = DeclaredKeys(op.cls)
             /\ \A i \in DOMAIN keys : u[keys[i][1]] = before.s[keys[i][2]]

\* C12 witness: to_dict ran on a node with a set slot and an unset one; the
\* untrimmed mapping holds None under the key of the unset slot and to_dict
\* returned the mapping without that key.
C12_Witness ==
    /\ op.name = "to_dict"
    /\ \E k \in DeclaredKeys(op.cls) :
          /\ to_untrimmed_dict(op.cls, before.s)[k] = None
          /\ k \notin DOMAIN out
    /\ DOMAIN out # {}

\* C13: trim is idempotent on nested mappings built from empty strings,
\* empty sequences, empty mappings, None, false, 0 and ordinary values, and
\* so to_dict of the node read back from a to_dict output is that output.
C13_TrimIdempotent ==
    /\ op.name = "trim_again" => out = trim_dict(arg)
    /\ (op.name = "round_trip" /\ UnknownKey \notin DOMAIN arg) =>
            raised = "none" /\ to_dict(op.cls, obj.s) = arg

\* What trim is to remove: None, an empty sequence, and a mapping all of
\* whose values are to be removed.
RECURSIVE Removable(_)
Removable(v) ==
    \/ v.t = "None"
    \/ v.t = "list" /\ v.n = 0
    \/ v.t = "mapping" /\ \A k \in v.k : Removable(v.m[k])

\* C14: trim removes exactly the entries whose value is None, an empty
\* sequence or an empty mapping, bottom-up, and keeps false and 0; so to_dict
\* of a GenericTypeOptions built with clip = False and threshold = 0 has
\* "clip": false and "threshold": 0.
C14_TrimRemovesExactlyEmpty ==
    /\ op.name = "trim" =>
          /\ DOMAIN out = {k \in DOMAIN arg : ~Removable(arg[k])}
          /\ \A k \in DOMAIN out :
                IF arg[k].t = "mapping"
                THEN /\ out[k].t = "mapping"
                     /\ out[k].k = {j \in arg[k].k : ~Removable(arg[k].m[j])}
                ELSE out[k] = arg[k]
          /\ \A k \in DOMAIN arg : arg[k] \in {Bool(FALSE), Num(0)} => k \in DOMAIN out
    /\ (/\ op.name = "init" /\ op.cls = "GenericTypeOptions"
        /\ arg = ("clip" :> Bool(FALSE)) @@ ("threshold" :> Num(0))) =>
          /\ raised = "none"
          /\ \E d \in {to_dict(op.cls, obj.s)} :
                /\ {"clip", "threshold"} \subseteq DOMAIN d
                /\ d["clip"] = Bool(FALSE) /\ d["threshold"] = Num(0)

\* The statements of C13 and C14 about trim alone.
TrimAlone ==
    /\ op.name = "trim_again" => out = trim_dict(arg)
    /\ op.name = "trim" =>
          /\ DOMAIN out = {k \in DOMAIN arg : ~Removable(arg[k])}
          /\ \A k \in DOMAIN arg : arg[k] \in {Bool(FALSE), Num(0)} => k \in DOMAIN out

\* C15: in each of the six classes the map from slot to external key covers
\* every declared slot, gives no key to two slots, and is the same for
\* reading and writing: from_dict reads the keys to_dict writes, each for the
\* same slot, so the untrimmed mapping of a node holds under every key the
\* value of the slot from_dict fills from that key.
C15_KeyMapBothWays ==
    /\ \A cls \in Classes \cap {op.cls} :
          \E kk \in {kwargs_keys(cls)} : \E uk \in {untrimmed_keys(cls)} :
             /\ {kk[i][1] : i \in DOMAIN kk} = Slots(cls)
             /\ \A i, j \in DOMAIN kk : kk[i][2] = kk[j][2] => i = j
             /\ \A i, j \in DOMAIN kk : kk[i][1] = kk[j][1] => i = j
             /\ {<<kk[i][2], kk[i][1]>> : i \in DOMAIN kk}
                = {<<uk[i][1], uk[i][2]>> : i \in DOMAIN uk}
    /\ alive =>
          \E d \in {to_untrimmed_dict(obj.cls, obj.s)} :
             \E kk \in {kwargs_keys(obj.cls)} :
                /\ DOMAIN d = {kk[i][2] : i \in DOMAIN kk}
                /\ \A i \in DOMAIN kk : d[kk[i][2]] = obj.s[kk[i][1]]

\* from_dict filled inner_radius from "innerRadius", a key that differs from
\* the slot's name, and the node holds the value.
C15_Witness ==
    /\ op.name = "from_dict" /\ op.cls = "PaneBackground"
    /\ "innerRadius" \in DOMAIN arg
    /\ alive /\ raised = "none"
    /\ obj.s["inner_radius"] # None
    /\ obj.s["inner_radius"] # obj.s["outer_radius"]

\* The slots of the mapping given to from_dict that are named in snake_case,
\* not by their external key.
SnakeCaseKeys == {a \in DOMAIN arg \cap Slots(op.cls) : ExternalKey(op.cls, a) # a}

\* C16: from_dict of a mapping that names a slot in snake_case (border_width,
\* inner_radius, end_angle, allow_point_select) gives what from_dict of the
\* mapping with the camelCase key gives: the same node, or the same error.
C16_SnakeCaseKeyRead ==
    (op.name = "from_dict" /\ SnakeCaseKeys # {}) =>
        \A a \in SnakeCaseKeys :
            \E r \in {from_dict(op.cls, ExternalKey(op.cls, a) :> arg[a])} :
                /\ raised = r.exc
                /\ raised = "none" => obj.s = r.self

\* The error message shows value, as given or in lower case.
Shows(value) ==
    \/ msg.value = value
    \/ value.t = "str" /\ msg.value = Str(Lower(value.s))

\* C17: a validation error raised by the setter of an enumerated slot (shape,
\* cursor, dash_style) or of a polymorphic colour slot carries the value
\* that was assigned and the name of the slot.
C17_ErrorNamesValueAndSlot ==
    \A p \in EnumSlots \cup ColourSlots :
        (Ran(p) /\ SetterRaised(p, "HighchartsValueError")) =>
            msg.slot = p[2] /\ Shows(GivenValue(p))

\* The part of C17 that holds: the error carries the value, and for the
\* enumerated slots the slot's name; for the colour slots it names no slot.
C17_ErrorNamesValue ==
    \A p \in EnumSlots \cup ColourSlots :
        (Ran(p) /\ SetterRaised(p, "HighchartsValueError")) =>
            /\ Shows(GivenValue(p))
            /\ msg.slot = IF p \in ColourSlots THEN "" ELSE p[2]

-----------------------------------------------------------------------------
(* WordcloudData.from_setter *)

\* The node from_dict builds from the mapping item, and the default node.
NodeFrom(mapping) ==
    [cls |-> "WordcloudData", s |-> from_dict("WordcloudData", mapping.m).self]
DefaultNode == [cls |-> "WordcloudData", s |-> init("WordcloudData", Empty).self]

\* C18: from_setter given one non-empty mapping, not inside a list, returns
\* a list of exactly the one WordcloudData built from it; given one
\* WordcloudData instance it returns a list holding that instance.
C18_SingleValueWrapped ==
    op.name = "from_setter" =>
        /\ (arg.t = "mapping" /\ arg.k # {}) =>
                raised = "none" /\ out = <<NodeFrom(arg)>>
        /\ arg.t = "WordcloudData" => raised = "none" /\ out = <<arg>>

\* The part of C18 that holds: one instance is wrapped; one mapping is
\* iterated over its keys, and the first key, a string, is rejected.
C18_SingleMappingRejected ==
    op.name = "from_setter" =>
        /\ (arg.t = "mapping" /\ arg.k # {}) =>
                /\ raised = "HighchartsValueError" /\ out = << >>
                /\ msg.value.t = "str" /\ msg.value.s \in arg.k
        /\ arg.t = "WordcloudData" => raised = "none" /\ out = <<arg>>

\* The items from_setter converts: an instance, a mapping, None, EnforcedNull.
Convertible(item) ==
    \/ item.t \in {"WordcloudData", "mapping", "EnforcedNullType"}
    \/ item = None

\* The node the spec gives for a convertible item: the instance itself, the
\* node from_dict builds, the default node.
NodeFor(item) ==
    IF item.t = "WordcloudData" THEN item
    ELSE IF item.t = "mapping" THEN NodeFrom(item)
    ELSE DefaultNode

\* A mapping item from_dict raises on.
Unreadable(item) ==
    item.t = "mapping" /\ from_dict("WordcloudData", item.m).exc # "none"

\* C19 as stated: from_setter given a sequence returns one WordcloudData per
\* item, in order (instance kept, mapping through from_dict, None or
\* EnforcedNull as a default node); a falsy input gives the empty list; an
\* item that is none of these raises HighchartsValueError, and nothing is
\* returned.
C19_OnePerItem ==
    op.name = "from_setter" =>
        /\ Falsy(arg) => raised = "none" /\ out = << >>
        /\ (arg.t = "items" /\ arg.n > 0) =>
              IF \A i \in DOMAIN arg.q : Convertible(arg.q[i])
              THEN /\ raised = "none"
                   /\ out = [i \in DOMAIN arg.q |-> NodeFor(arg.q[i])]
              ELSE raised = "HighchartsValueError" /\ out = << >>

\* C19 as the code has it: the items are converted in order up to the first
\* that is not convertible, which raises HighchartsValueError about that
\* item, or that is a mapping from_dict raises on, which raises from_dict's
\* error; either way nothing is returned. With no such item the list has one
\* node per item, in order. A falsy input gives the empty list.
C19_OnePerItemConverted ==
    op.name = "from_setter" =>
        /\ Falsy(arg) => raised = "none" /\ out = << >>
        /\ (arg.t = "items" /\ arg.n > 0) =>
              \E bad \in {{i \in DOMAIN arg.q :
                            ~Convertible(arg.q[i]) \/ Unreadable(arg.q[i])}} :
                 IF bad = {}
                 THEN /\ raised = "none"
                      /\ out = [i \in DOMAIN arg.q |-> NodeFor(arg.q[i])]
                 ELSE \E i \in bad :
                        /\ \A j \in bad : i <= j
                        /\ out = << >>
                        /\ IF Unreadable(arg.q[i])
                           THEN raised = from_dict("WordcloudData", arg.q[i].m).exc
                           ELSE /\ raised = "HighchartsValueError"
                                /\ msg.value = arg.q[i]

\* from_setter returned two nodes for an instance after None: the default
\* node, then the instance itself.
C19_Witness ==
    /\ op.name = "from_setter"
    /\ arg = Items(<<None, Node("WordcloudData", 2)>>)
    /\ raised = "none"
    /\ out = <<DefaultNode, Node("WordcloudData", 2)>>

\* from_setter raised on the second item, a string, after it had converted
\* the first, and returned nothing.
C19_WitnessRaised ==
    /\ op.name = "from_setter"
    /\ arg = Items(<<Mapping("weight" :> Num(5000)), Str("fifty")>>)
    /\ raised = "HighchartsValueError"
    /\ out = << >>

-----------------------------------------------------------------------------
(* The constructor of GenericTypeOptions *)

\* GenericTypeOptions() or GenericTypeOptions.from_dict({}) was called.
BuiltBare ==
    /\ op.cls = "GenericTypeOptions"
    /\ op.name \in {"init", "from_dict"}
    /\ arg = Empty

\* C20: GenericTypeOptions() and GenericTypeOptions.from_dict({}) complete
\* without raising and give a node with allow_point_select = False,
\* clip = True, enable_mouse_tracking = True, selected = False,
\* show_checkbox = False and visible = True.
C20_ConstructorCompletes ==
    BuiltBare =>
        /\ raised = "none" /\ alive
        /\ obj.cls = "GenericTypeOptions"
        /\ obj.s["allow_point_select"] = Bool(FALSE)
        /\ obj.s["clip"] = Bool(TRUE)
        /\ obj.s["enable_mouse_tracking"] = Bool(TRUE)
        /\ obj.s["selected"] = Bool(FALSE)
        /\ obj.s["show_checkbox"] = Bool(FALSE)
        /\ obj.s["visible"] = Bool(TRUE)

\* What the constructor does: it raises AttributeError at show_checkbox,
\* with whatever arguments, and no GenericTypeOptions node ever exists.
C20_ConstructorRaises ==
    /\ (op.cls = "GenericTypeOptions" /\ op.name \in {"init", "from_dict"}) =>
            /\ ~alive
            /\ raised # "none"
            /\ raised = "AttributeError" <=> raised_at = "show_checkbox"
            /\ BuiltBare => raised = "AttributeError"
    /\ alive => obj.cls # "GenericTypeOptions"

-----------------------------------------------------------------------------
(* Defaults of GenericTypeOptions *)

\* A GenericTypeOptions was built, by the constructor or by from_dict, from
\* arguments that give none of the slots in attrs.
BuiltWithout(attrs) ==
    /\ op.cls = "GenericTypeOptions"
    /\ op.name \in {"init", "from_dict"}
    /\ \A a \in attrs :
          /\ a \notin DOMAIN arg
          /\ ExternalKey("GenericTypeOptions", a) \notin DOMAIN arg

\* C21: a GenericTypeOptions to which include_in_data_export and
\* turbo_threshold were never given holds include_in_data_export = True and
\* turbo_threshold = 1000.
C21_DocumentedDefaults ==
    BuiltWithout({"include_in_data_export", "turbo_threshold"}) =>
        /\ raised = "none"
        /\ obj.s["include_in_data_export"] = Bool(TRUE)
        /\ obj.s["turbo_threshold"] = Num(100000)

\* What the code assigns: include_in_data_export = bool(None) = False before
\* the constructor raises; turbo_threshold is never assigned, and its setter
\* would store 0 for the constructor's default None.
C21_DefaultsAssigned ==
    BuiltWithout({"include_in_data_export", "turbo_threshold"}) =>
        /\ raised_at \in {"show_checkbox", "include_in_data_export"}
              => obj.s["include_in_data_export"] = Bool(FALSE)
        /\ raised # "none" /\ obj.s["turbo_threshold"] = None
        /\ Setter("GenericTypeOptions", "turbo_threshold", None) = Ok(Num(0))

\* A number or the EnforcedNull sentinel.
NumberOrEnforcedNull(v) == v.t = "num" \/ v = EnforcedNull

\* C22: the threshold of a GenericTypeOptions is a number or EnforcedNull,
\* never None: built with threshold None or omitted it is 0, built with
\* EnforcedNull it is EnforcedNull, and to_dict has the threshold key.
C22_ThresholdNeverNone ==
    /\ (alive /\ obj.cls = "GenericTypeOptions") =>
            /\ NumberOrEnforcedNull(obj.s["threshold"])
            /\ "threshold" \in DOMAIN to_dict(obj.cls, obj.s)
    /\ (op.cls = "GenericTypeOptions" /\ op.name = "init") =>
            /\ Get(arg, "threshold", None) = None =>
                    raised = "none" /\ obj.s["threshold"] = Num(0)
            /\ Get(arg, "threshold", None) = EnforcedNull =>
                    raised = "none" /\ obj.s["threshold"] = EnforcedNull

\* What holds of the setter alone: whatever it returns is a number or
\* EnforcedNull, 0 for None and EnforcedNull for EnforcedNull; but the
\* constructor never reaches it, and threshold stays None.
C22_ThresholdSetterNeverNone ==
    /\ \A v \in ThresholdInputs :
          \E r \in {Setter("GenericTypeOptions", "threshold", v)} :
             /\ r.exc = "none" => NumberOrEnforcedNull(r.v)
             /\ v = None => r = Ok(Num(0))
             /\ v = EnforcedNull => r = Ok(EnforcedNull)
    /\ (op.cls = "GenericTypeOptions" /\ op.name \in {"init", "from_dict"}) =>
            obj.s["threshold"] = None

-----------------------------------------------------------------------------
(* Children shared between parents *)

\* The to_dict output of parent p, and of the nodes of list c, with the
\* children as they are in heap h.
ParentDict(h, ps, p) == to_dict_sharing(h, "AxisMarker", ps[p])
ListDicts(h, cs, c) == [i \in DOMAIN cs[c] |-> child_to_dict(h, cs[c][i])]

\* C23: a slot given an existing instance holds that same instance, so a
\* mutation of a child is seen in the to_dict output of every parent that
\* holds it, and changes no node that does not hold it.
C23_SharedChildVisible ==
    [][/\ \A p \in 1..2 :
             parents'[p] # parents[p] => parents'[p]["color"] = op'.value
       /\ \A c \in 1..2 :
             collections'[c] # collections[c] => collections'[c] = arg'.q
       /\ \A child \in Children :
             heap'[child] # heap[child] =>
                /\ \A other \in Children \ {child} : heap'[other] = heap[other]
                /\ parents' = parents /\ collections' = collections /\ obj' = obj
                /\ \A p \in 1..2 :
                      IF parents[p]["color"] = child
                      THEN ParentDict(heap', parents', p)["color"]
                              = Mapping(child_to_dict(heap', child))
                      ELSE ParentDict(heap', parents', p) = ParentDict(heap, parents, p)
                /\ \A c \in 1..2 : \A i \in DOMAIN collections[c] :
                      IF collections[c][i] = child
                      THEN ListDicts(heap', collections', c)[i]
                              = child_to_dict(heap', child)
                      ELSE ListDicts(heap', collections', c)[i]
                              = ListDicts(heap, collections, c)[i]
      ]_vars

\* One Gradient is held by both parents and was mutated: both outputs show
\* its new stops.
C23_Witness ==
    /\ op.name = "mutate" /\ op.value = Node("Gradient", 1)
    /\ parents[1]["color"] = op.value /\ parents[2]["color"] = op.value
    /\ heap[op.value] # NewChild(op.value)
    /\ ParentDict(heap, parents, 1) = ("color" :> Mapping("stops" :> heap[op.value]["stops"]))
    /\ ParentDict(heap, parents, 2) = ParentDict(heap, parents, 1)

\* One WordcloudData is in both lists and was mutated: both lists show its
\* new weight, and the other node of the first list is as it was.
C23_WitnessList ==
    /\ op.name = "mutate" /\ op.value = Node("WordcloudData", 1)
    /\ collections[1] = <<Node("WordcloudData", 1), Node("WordcloudData", 2)>>
    /\ collections[2] = <<Node("WordcloudData", 1)>>
    /\ heap[Node("WordcloudData", 2)] = NewChild(Node("WordcloudData", 2))
    /\ ListDicts(heap, collections, 1)[1] = ("weight" :> Num(5000))
    /\ ListDicts(heap, collections, 2)[1] = ("weight" :> Num(5000))
    /\ ListDicts(heap, collections, 1)[2] = Empty

-----------------------------------------------------------------------------
(* The options of a Chart *)

\* A SharedOptions instance was assigned to the options of a Chart built
\* with no arguments.
SharedOptionsAssigned ==
    /\ op.name = "set" /\ op.cls = "Chart" /\ op.attr = "options"
    /\ op.value.t = "SharedOptions"
    /\ before.s = init("Chart", Empty).self

-----------------------------------------------------------------------------
(* The fallback and the order of the colour recognizers *)

\* The colour setter tries value as the literal notation of a Gradient /
\* of a Pattern, and from_json fails with a ValueError.
GradientParseFails(v) ==
    /\ v.t \in {"dict", "str"} /\ Contains(v, "linearGradient")
    /\ from_json("Gradient", v).exc = "ValueError"
PatternParseFails(v) ==
    /\ v.t \in {"dict", "str"} /\ Contains(v, "patternOptions")
    /\ ~Contains(v, "linearGradient") /\ ~HasGradientKey(v)
    /\ from_json("Pattern", v).exc = "ValueError"

\* C25: when the value holds the linearGradient (patternOptions)
\* discriminator and from_json fails on it with a ValueError, the colour
\* setter raises nothing: a mapping is stored as Gradient.from_dict
\* (Pattern.from_dict) builds it, a string is stored as a plain string.
C25_ParseFailureFallsBack ==
    \A p \in ColourSlots :
        Ran(p) =>
            \E v \in {GivenValue(p)} :
               /\ (GradientParseFails(v) \/ PatternParseFails(v)) =>
                      SetterReturned(p)
               /\ (GradientParseFails(v) /\ v.t = "dict") =>
                      Slot(p) = from_dict_nested("Gradient", v).v
               /\ (PatternParseFails(v) /\ v.t = "dict") =>
                      Slot(p) = from_dict_nested("Pattern", v).v
               /\ ((GradientParseFails(v) \/ PatternParseFails(v)) /\ v.t = "str") =>
                      Slot(p) = v

\* The colour setter of AxisMarker fell back on a mapping with the
\* linearGradient key that from_json cannot parse, and stored the Gradient
\* from_dict builds.
C25_Witness ==
    /\ op.name = "init" /\ op.cls = "AxisMarker"
    /\ "color" \in DOMAIN arg /\ arg["color"].t = "dict"
    /\ GradientParseFails(arg["color"])
    /\ alive /\ raised = "none"
    /\ obj.s["color"] = from_dict_nested("Gradient", arg["color"]).v

-----------------------------------------------------------------------------
(* Zero in the numeric-or-percentage slots *)

\* C26: 0 given to a numeric-or-percentage slot (Pane.size, Pane.inner_size,
\* PaneBackground.inner_radius, PaneBackground.outer_radius) is stored as 0
\* and to_dict has the slot's key with 0; the slot is unset only for None
\* and the empty string.
C26_ZeroIsStored ==
    \A p \in SizeSlots :
        Ran(p) =>
            /\ GivenValue(p) = Num(0) =>
                  /\ SetterReturned(p) /\ Slot(p) = Num(0)
                  /\ alive => \E d \in {to_dict(obj.cls, obj.s)} :
                        /\ ExternalKey(p[1], p[2]) \in DOMAIN d
                        /\ d[ExternalKey(p[1], p[2])] = Num(0)
            /\ (SetterReturned(p) /\ Slot(p) = None) =>
                  GivenValue(p) \in {None, EmptyStr}

\* What the four setters do with 0: they return, and the slot is None.
C26_ZeroIsUnset ==
    \A p \in SizeSlots :
        (Ran(p) /\ GivenValue(p) = Num(0)) => SetterReturned(p) /\ Slot(p) = None

\* The first recognizer of the fixed order that takes value.
Recognizer(v) ==
    IF Falsy(v) THEN "unset"
    ELSE IF v.t \in {"Gradient", "Pattern"} THEN "instance"
    ELSE IF v.t \in {"dict", "str"} /\ Contains(v, "linearGradient") THEN "linearGradient"
    ELSE IF v.t = "dict" /\ Contains(v, "linear_gradient") THEN "linear_gradient"
    ELSE IF v.t \in {"dict", "str"} /\ Contains(v, "patternOptions") THEN "patternOptions"
    ELSE IF v.t = "dict" /\ Contains(v, "pattern_options") THEN "pattern_options"
    ELSE "error"

\* C27: the colour setters try their recognizers in one order (falsy;
\* instance; linearGradient; linear_gradient; patternOptions;
\* pattern_options; error), so a mapping with a Gradient and a Pattern
\* discriminator goes through the Gradient branch, and a value has the same
\* outcome in all four setters.
C27_OneOrderEverywhere ==
    \A p \in ColourSlots :
        Ran(p) =>
            \E v \in {GivenValue(p)} : \E first \in {Recognizer(v)} :
               /\ first = "unset" => SetterReturned(p) /\ Slot(p) = None
               /\ first = "instance" => SetterReturned(p) /\ Slot(p) = v
               /\ first \in {"linearGradient", "linear_gradient"} =>
                     SetterReturned(p) /\ Slot(p) \in {Gradient(1), Gradient(v.n), v}
               /\ first \in {"patternOptions", "pattern_options"} =>
                     SetterReturned(p) /\ Slot(p) \in {Pattern(1), Pattern(v.n), v}
               /\ first = "error" => SetterRaised(p, "HighchartsValueError")
               /\ (HasGradientKey(v) /\ HasPatternKey(v)) =>
                     SetterReturned(p) /\ Slot(p).t = "Gradient"
               /\ \A q \in ColourSlots : Setter(q[1], q[2], v) = Setter(p[1], p[2], v)

\* background_color was given a mapping with the keys linear_gradient and
\* patternOptions, and holds a Gradient.
C27_Witness ==
    /\ op.name = "init" /\ op.cls = "PaneBackground"
    /\ "background_color" \in DOMAIN arg
    /\ arg["background_color"].t = "dict"
    /\ arg["background_color"].k = {"linear_gradient", "patternOptions"}
    /\ raised_at # "background_color"
    /\ obj.s["background_color"].t = "Gradient"

\* The mapping m without the external keys cls declares.
WithoutDeclared(cls, m) ==
    [k \in {x \in DOMAIN m : \A i \in DOMAIN kwargs_keys(cls) : kwargs_keys(cls)[i][2] # x}
        |-> m[k]]

PopReaders == {"AxisMarker", "PaneBackground", "Pane", "GenericTypeOptions", "WordcloudData"}
GetReaders == {"PictorialPaths"}

\* C28: from_dict of AxisMarker, PaneBackground, Pane, GenericTypeOptions and
\* WordcloudData removes every declared external key from the caller's
\* mapping and leaves the undeclared ones, so a second from_dict on the same
\* mapping object returns a node with every slot at its default; the
\* pictorial readers leave the mapping as it was, and a repeated call
\* returns an equal result.
C28_FromDictConsumesKeys ==
    /\ (op.name = "from_dict" /\ op.cls \in PopReaders) =>
            caller_dict = WithoutDeclared(op.cls, arg)
    /\ (op.name = "from_dict" /\ op.cls \in GetReaders) => caller_dict = arg
    /\ (op.name = "from_dict_again" /\ op.cls \in PopReaders) =>
            /\ caller_dict = WithoutDeclared(op.cls, arg)
            /\ raised = "none"
            /\ alive
            /\ \A a \in Slots(op.cls) : obj.s[a] = init(op.cls, Empty).self[a]
    /\ (op.name = "from_dict_again" /\ op.cls \in GetReaders) =>
            /\ caller_dict = arg
            /\ obj = before
            /\ raised = from_dict(op.cls, arg).exc

\* C28, the effect on the mapping alone and the second call where the
\* constructor completes.
C28_MappingAfterFromDict ==
    /\ (op.name \in {"from_dict", "from_dict_again"} /\ op.cls \in PopReaders) =>
            caller_dict = WithoutDeclared(op.cls, arg)
    /\ (op.name \in {"from_dict", "from_dict_again"} /\ op.cls \in GetReaders) =>
            caller_dict = arg
    /\ (op.name = "from_dict_again" /\ op.cls \in GetReaders) =>
            /\ obj = before
            /\ raised = from_dict(op.cls, arg).exc

\* A second from_dict on a mapping that had a declared and an undeclared
\* key: the declared key is gone, the undeclared one is still there.
C28_Witness ==
    /\ op.name = "from_dict_again" /\ op.cls \in PopReaders
    /\ DOMAIN arg # DOMAIN caller_dict
    /\ caller_dict # Empty

\* A second PictorialPaths.from_dict on a mapping with a key.
C28_WitnessGet ==
    /\ op.name = "from_dict_again" /\ op.cls \in GetReaders
    /\ arg # Empty /\ alive

\* C29: a setter that raises leaves its slot and every other slot of the
\* node as they were before the call, and the node's to_dict output is the
\* same as before the assignment; inside the constructor, the slot of the
\* setter that raised and every slot after it are still None.
C29_FailedSetterChangesNothing ==
    /\ (op.name = "set" /\ raised # "none") =>
            /\ obj = before
            /\ to_dict(obj.cls, obj.s) = to_dict(before.cls, before.s)
    /\ (op.name \in {"init", "from_dict"} /\ raised_at # "") =>
            \A a \in Slots(op.cls) :
                Index(op.cls, a) >= Index(op.cls, raised_at) => obj.s[a] = None

\* A failed assignment to a slot of a live node that held a value: shape, a
\* colour slot, a numeric slot or a numeric-or-percentage slot.
C29_Witness ==
    /\ op.name = "set" /\ raised # "none"
    /\ <<op.cls, op.attr>> \in
            {<<"PaneBackground", "shape">>, <<"AxisMarker", "width">>} \cup
            ColourSlots \cup SizeSlots
    /\ before.s[op.attr] # None
    /\ op.value # before.s[op.attr]

\* The cursor, dash_style or opacity setter raised in the constructor.
C29_WitnessGeneric ==
    /\ op.name = "init" /\ op.cls = "GenericTypeOptions"
    /\ raised_at \in {"cursor", "dash_style", "opacity"}

\* The node the last operation left has every slot up to attr assigned: it
\* is a live node, or its constructor raised in a later assignment.
Assigned(attr) ==
    \/ alive
    \/ /\ op.name \in {"init", "from_dict", "from_dict_again"}
       /\ raised_at # ""
       /\ Index(op.cls, raised_at) > Index(op.cls, attr)

\* Assigning the stored value of slot attr back to it succeeds and leaves
\* the node as it is.
AssignedBack(attr) ==
    \E r \in {setattr(obj.cls, obj.s, attr, obj.s[attr])} :
        r.exc = "none" /\ r.self = obj.s

\* C30: for every slot of AxisMarker, PaneBackground, Pane and
\* GenericTypeOptions that the constructor assigns, assigning the slot's
\* stored value back to the same slot succeeds and leaves the stored value
\* unchanged; the constructor assigns every slot, show_checkbox included.
C30_SettersIdempotent ==
    obj.cls \in {"AxisMarker", "PaneBackground", "Pane", "GenericTypeOptions"} =>
        /\ \A attr \in Slots(obj.cls) : Assigned(attr) => AssignedBack(attr)
        /\ (op.name = "init" /\ obj.cls = "GenericTypeOptions") =>
                raised_at # "show_checkbox"

\* C30 for the slots that have a setter.
C30_SettersIdempotentWhereDefined ==
    obj.cls \in {"AxisMarker", "PaneBackground", "Pane", "GenericTypeOptions"} =>
        \A attr \in Slots(obj.cls) : Assigned(attr) => AssignedBack(attr)

====
